---- MODULE Spec2Model ----
(***************************************************************************)
(* Mensageiro do Bem: the serverless proxy handler (api/gemini-proxy.ts,   *)
(* Stable Horde variant) and the client library that calls it              *)
(* (services/geminiService.ts).                                            *)
(*                                                                         *)
(* Text is modelled as a sequence of tokens, JSON values as records        *)
(* [t, s, items], error messages as sequences of string fragments (so that *)
(* template literals are concatenations and String.includes is a search).  *)
(***************************************************************************)
EXTENDS Integers, Sequences, FiniteSets, TLC

VARIABLES
    env,           \* process.env: GEMINI_API_KEY, STABLE_HORDE_API_KEY
    req,           \* the request of the invocation
    pc,            \* where the handler is: idle, an await, or done
    generationId,  \* handler local: the Stable Horde job id
    retries,       \* handler local: the poll counter
    finalData,     \* handler local: the check reply that reported done
    response,      \* what response.status(..).json(..) sent
    sent,          \* how many responses were sent
    calls,         \* the provider calls and timers of the invocation, in order
    upstream,      \* the latest reply of a provider
    caught,        \* the value the catch clause received, if it ran
    client,        \* one call of the client library
    app,           \* App: the component's state (the useState values)
    inflight,      \* App: the proxy calls that have not settled yet
    hist,          \* App: what has happened so far (observation only)
    contacts,      \* App: the contact list (useState)
    contactUi,     \* App: the add-contact form, the import in progress, the clock
    peer           \* a second invocation of the handler, waiting at one of its awaits

vars == <<env, req, pc, generationId, retries, finalData, response, sent, calls,
          upstream, caught, client, app, inflight, hist, contacts, contactUi, peer>>

appVars == <<app, inflight, hist>>

contactVars == <<contacts, contactUi>>

proxyVars == <<env, req, pc, generationId, retries, finalData, response, sent,
               calls, upstream, caught, peer>>

(***************************************************************************)
(* Bounds of the model.                                                    *)
(***************************************************************************)
\* longest JSON array the text provider is made to return
MaxItems == 2
\* longest image (in bytes) the image host is made to return
MaxBytes == 3

(***************************************************************************)
(* JavaScript values.                                                      *)
(***************************************************************************)
\* the value `undefined` of a string-valued slot (env var, field, header)
UNDEF == "<undefined>"

\* JavaScript truthiness of a string-or-undefined slot
Truthy(v) == v # UNDEF /\ v # ""

JStr(s) == [t |-> "str", s |-> s, items |-> <<>>]
JNum(s) == [t |-> "num", s |-> s, items |-> <<>>]
JNull == [t |-> "null", s |-> "", items |-> <<>>]
JTrue == [t |-> "bool", s |-> "true", items |-> <<>>]
JFalse == [t |-> "bool", s |-> "false", items |-> <<>>]
JArr(items) == [t |-> "arr", s |-> "", items |-> items]
JMember(k, v) == [t |-> "member", s |-> k, items |-> <<v>>]
JObj(members) == [t |-> "obj", s |-> "", items |-> members]
\* `undefined` where a JSON value is expected (a property that is not there)
JUndef == [t |-> "undefined", s |-> "", items |-> <<>>]

\* the key's value in an object: the last member of that name (a later
\* duplicate overwrites an earlier one); undefined when there is none
RECURSIVE MemberOf(_, _, _)
MemberOf(members, key, i) ==
    IF i < 1 THEN JUndef
    ELSE IF members[i].s = key THEN members[i].items[1]
    ELSE MemberOf(members, key, i - 1)

\* v.key for a non-null v: own properties of objects only (strings, numbers and
\* arrays have none of the keys the program reads)
GetProp(v, key) ==
    IF v.t = "obj" THEN MemberOf(v.items, key, Len(v.items)) ELSE JUndef

\* Array.isArray
IsArray(v) == v.t = "arr"

\* JavaScript truthiness of a JSON value
TruthyJ(v) ==
    CASE v.t \in {"undefined", "null"} -> FALSE
      [] v.t = "bool" -> v.s = "true"
      [] v.t = "str" -> v.s # ""
      [] v.t = "num" -> v.s # "0"
      [] OTHER -> TRUE

\* a property read fails on null and undefined
Nullish(v) == v.t \in {"undefined", "null"}

(***************************************************************************)
(* Text: tokens, String.prototype.trim and JSON.parse.                     *)
(***************************************************************************)
Tok(k, v) == [k |-> k, v |-> v]
TLBracket == Tok("punct", "[")
TRBracket == Tok("punct", "]")
TLBrace == Tok("punct", "{")
TRBrace == Tok("punct", "}")
TComma == Tok("punct", ",")
TColon == Tok("punct", ":")
TNull == Tok("word", "null")
TTrue == Tok("word", "true")
TFalse == Tok("word", "false")
TStr(s) == Tok("str", s)
TNum(s) == Tok("num", s)
\* a space: white space for trim and for JSON
TSpace == Tok("ws", " ")
\* a no-break space: white space for trim, not for JSON
TNbsp == Tok("ws", "nbsp")
\* a line feed: white space for trim and for JSON
TNewline == Tok("ws", "nl")
\* a bare word that is no JSON literal
TWord(s) == Tok("word", s)

RECURSIVE TrimStart(_)
TrimStart(text) ==
    IF text # <<>> /\ Head(text).k = "ws" THEN TrimStart(Tail(text)) ELSE text

RECURSIVE TrimEnd(_)
TrimEnd(text) ==
    IF text # <<>> /\ text[Len(text)].k = "ws"
    THEN TrimEnd(SubSeq(text, 1, Len(text) - 1))
    ELSE text

\* Trim with a slip: only the start is trimmed
Trim_StartOnly(text) == TrimStart(text)

Trim(text) == TrimEnd(TrimStart(text))

RECURSIVE SkipWs(_)
SkipWs(text) ==
    IF text # <<>> /\ Head(text) \in {TSpace, TNewline} THEN SkipWs(Tail(text)) ELSE text

ParseFail == [ok |-> FALSE, val |-> JUndef, rest |-> <<>>]
ParseOk(v, rest) == [ok |-> TRUE, val |-> v, rest |-> rest]

RECURSIVE ParseValue(_), ParseElements(_, _), ParseMembers(_, _)
\* one JSON value at the head of the text, white space skipped before it
ParseValue(text) ==
    LET t == SkipWs(text) IN
    IF t = <<>> THEN ParseFail
    ELSE LET h == Head(t) IN
         CASE h.k = "str" -> ParseOk(JStr(h.v), Tail(t))
           [] h.k = "num" -> ParseOk(JNum(h.v), Tail(t))
           [] h = TNull -> ParseOk(JNull, Tail(t))
           [] h = TTrue -> ParseOk(JTrue, Tail(t))
           [] h = TFalse -> ParseOk(JFalse, Tail(t))
           [] h = TLBracket ->
                LET u == SkipWs(Tail(t)) IN
                IF u # <<>> /\ Head(u) = TRBracket
                THEN ParseOk(JArr(<<>>), Tail(u))
                ELSE ParseElements(u, <<>>)
           [] h = TLBrace ->
                LET u == SkipWs(Tail(t)) IN
                IF u # <<>> /\ Head(u) = TRBrace
                THEN ParseOk(JObj(<<>>), Tail(u))
                ELSE ParseMembers(u, <<>>)
           [] OTHER -> ParseFail

\* value ("," value)* "]"
ParseElements(text, acc) ==
    LET r == ParseValue(text) IN
    IF ~r.ok THEN ParseFail
    ELSE LET u == SkipWs(r.rest) IN
         IF u = <<>> THEN ParseFail
         ELSE IF Head(u) = TRBracket THEN ParseOk(JArr(Append(acc, r.val)), Tail(u))
         ELSE IF Head(u) = TComma THEN ParseElements(Tail(u), Append(acc, r.val))
         ELSE ParseFail

\* string ":" value ("," string ":" value)* "}"
ParseMembers(text, acc) ==
    LET t == SkipWs(text) IN
    IF t = <<>> \/ Head(t).k # "str" THEN ParseFail
    ELSE LET c == SkipWs(Tail(t)) IN
         IF c = <<>> \/ Head(c) # TColon THEN ParseFail
         ELSE LET r == ParseValue(Tail(c)) IN
              IF ~r.ok THEN ParseFail
              ELSE LET u == SkipWs(r.rest)
                       m == Append(acc, JMember(Head(t).v, r.val)) IN
                   IF u = <<>> THEN ParseFail
                   ELSE IF Head(u) = TRBrace THEN ParseOk(JObj(m), Tail(u))
                   ELSE IF Head(u) = TComma THEN ParseMembers(Tail(u), m)
                   ELSE ParseFail

\* JSON.parse: one value, then nothing but JSON white space
JSONParse(text) ==
    LET r == ParseValue(text) IN
    IF r.ok /\ SkipWs(r.rest) = <<>> THEN [ok |-> TRUE, val |-> r.val]
    ELSE [ok |-> FALSE, val |-> JUndef]

(***************************************************************************)
(* Base64 (Buffer.from(bytes).toString('base64')) and its inverse.         *)
(***************************************************************************)
B64Chars ==
    <<"A", "B", "C", "D", "E", "F", "G", "H", "I", "J", "K", "L", "M", "N", "O", "P",
      "Q", "R", "S", "T", "U", "V", "W", "X", "Y", "Z", "a", "b", "c", "d", "e", "f",
      "g", "h", "i", "j", "k", "l", "m", "n", "o", "p", "q", "r", "s", "t", "u", "v",
      "w", "x", "y", "z", "0", "1", "2", "3", "4", "5", "6", "7", "8", "9", "+", "/">>

B64Char(n) == B64Chars[n + 1]

\* B64Group with a slip: the second character drops the first byte's low bits
B64Group_LowBitsLost(g) ==
    LET b1 == g[1]
        b2 == IF Len(g) >= 2 THEN g[2] ELSE 0
        b3 == IF Len(g) >= 3 THEN g[3] ELSE 0
        n == b1 * 65536 + b2 * 256 + b3
    IN  <<B64Char(n \div 262144), B64Char((n \div 4096) % 16),
          IF Len(g) >= 2 THEN B64Char((n \div 64) % 64) ELSE "=",
          IF Len(g) >= 3 THEN B64Char(n % 64) ELSE "=">>

\* one group of three bytes, or the last one or two bytes padded with "="
B64Group(g) ==
    LET b1 == g[1]
        b2 == IF Len(g) >= 2 THEN g[2] ELSE 0
        b3 == IF Len(g) >= 3 THEN g[3] ELSE 0
        n == b1 * 65536 + b2 * 256 + b3
    IN  <<B64Char(n \div 262144), B64Char((n \div 4096) % 64),
          IF Len(g) >= 2 THEN B64Char((n \div 64) % 64) ELSE "=",
          IF Len(g) >= 3 THEN B64Char(n % 64) ELSE "=">>

RECURSIVE Base64(_)
Base64(bytes) ==
    IF bytes = <<>> THEN <<>>
    ELSE IF Len(bytes) <= 3 THEN B64Group(bytes)
    ELSE B64Group(SubSeq(bytes, 1, 3)) \o Base64(SubSeq(bytes, 4, Len(bytes)))

(***************************************************************************)
(* Errors.  A thrown value is [isError, message]; a message is a sequence  *)
(* of fragments.                                                           *)
(***************************************************************************)
Err(message) == [isError |-> TRUE, message |-> message]

\* String.prototype.includes, on fragments
Includes(message, marker) == \E i \in 1..Len(message) : message[i] = marker

SAFETY == "SAFETY"

MsgMethodNotAllowed == <<"Metodo nao permitido">>
MsgInvalidRequest == <<"Requisicao invalida: 'action' e 'payload' sao obrigatorios.">>
MsgGeminiKeyMissing == <<"A chave de API do Gemini nao foi configurada no servidor.">>
MsgUnknownAction == <<"Acao desconhecida.">>
MsgContentPolicy == <<"O conteudo solicitado nao pode ser gerado devido as politicas de seguranca.">>
MsgInternal == <<"Ocorreu um erro interno no servidor.">>
MsgHordeStartPrefix == "Falha ao iniciar a geracao no Stable Horde: "
MsgHordeUnknown == "Erro desconhecido"
MsgHordeTimeout == <<"A geracao da imagem demorou muito ou falhou no Stable Horde.">>
MsgDownloadFailed == <<"Nao foi possivel baixar a imagem gerada pelo Stable Horde.">>

\* the TypeError of a property read on null or undefined
MsgTypeError(what, prop) == <<"Cannot read properties of ", what, " (reading '", prop, "')">>

\* the SyntaxError of JSON.parse.  Its wording is the engine's: older V8 names
\* the offending token only, newer V8 quotes the text it could not parse.
SyntaxErrorMessages(text) ==
    { <<"Unexpected token in JSON">>,
      <<"Unexpected token, \"">> \o [i \in 1..Len(text) |-> text[i].v]
          \o <<"\" is not valid JSON">> }

(***************************************************************************)
(* Responses.                                                              *)
(***************************************************************************)
NoResponse == [status |-> 0, kind |-> "none", error |-> <<>>, json |-> JUndef,
               imageUrl |-> <<>>]
ErrorResponse(status, message) ==
    [status |-> status, kind |-> "error", error |-> message, json |-> JUndef,
     imageUrl |-> <<>>]
JsonResponse(status, value) ==
    [status |-> status, kind |-> "json", error |-> <<>>, json |-> value,
     imageUrl |-> <<>>]
ImageResponse(status, url) ==
    [status |-> status, kind |-> "image", error |-> <<>>, json |-> JUndef,
     imageUrl |-> url]

\* response.status(s).json(b), returned: the handler is over
Respond(r) ==
    /\ response' = r
    /\ sent' = sent + 1
    /\ pc' = "done"

NotCaught == [is |-> FALSE, thrown |-> Err(<<>>)]

\* line 126: error instanceof Error ? error.message : "..."
ErrorMessage(thrown) == IF thrown.isError THEN thrown.message ELSE MsgInternal

\* CatchResponse with a slip: a failure is reported as a gateway error
CatchResponse_BadGateway(thrown) == ErrorResponse(502, ErrorMessage(thrown))

\* CatchResponse with a slip: the safety marker is not looked for
CatchResponse_Always500(thrown) == ErrorResponse(500, ErrorMessage(thrown))

\* the catch clause's answer
CatchResponse(thrown) ==
    IF Includes(ErrorMessage(thrown), SAFETY)
    THEN ErrorResponse(400, MsgContentPolicy)
    ELSE ErrorResponse(500, ErrorMessage(thrown))

\* the catch clause (lines 124-133)
Catch(thrown) ==
    /\ caught' = [is |-> TRUE, thrown |-> thrown]
    /\ Respond(CatchResponse(thrown))

\* a direct response.status(..).json(..) outside the catch clause
Answer(r) == Respond(r) /\ UNCHANGED caught

\* the handler goes on to its next await
Continue(next) == pc' = next /\ UNCHANGED <<response, sent, caught>>

(***************************************************************************)
(* The environment: requests, credentials, provider replies.               *)
(***************************************************************************)
SeqsUpTo(S, n) == UNION {[1..k -> S] : k \in 0..n}

EnvValues == {UNDEF, "", "key-0123456789"}

Methods == {"GET", "POST", "PUT"}
ActionValues == {UNDEF, "", "getSuggestions", "generateImage", "bogus", "GenerateImage"}
MessageTypes == {"Bom dia", "Boa noite"}
Themes == {"Generico", "Cristao"}

\* request.body.payload: undefined, null, or an object
Payload(kind, messageType, theme) ==
    [kind |-> kind, messageType |-> messageType, theme |-> theme,
     message |-> "Tenha um otimo dia!", imageStyle |-> "Realista"]
Payloads ==
    {Payload("undefined", UNDEF, UNDEF), Payload("null", UNDEF, UNDEF)}
        \cup {Payload("object", mt, th) : mt \in MessageTypes, th \in Themes}

NoRequest == [method |-> UNDEF, hasBody |-> FALSE, action |-> UNDEF,
              payload |-> Payload("undefined", UNDEF, UNDEF)]
Requests ==
    {[method |-> m, hasBody |-> FALSE, action |-> UNDEF,
      payload |-> Payload("undefined", UNDEF, UNDEF)] : m \in Methods}
        \cup [method : Methods, hasBody : {TRUE}, action : ActionValues,
              payload : Payloads]

\* messages of the errors the providers' clients reject with
UpstreamMessages ==
    { <<"fetch failed">>, <<SAFETY>>, <<"Response was blocked: ", SAFETY, " (HARM)">>,
      <<"blocked for safety">>, <<>> }

NoReply == [threw |-> FALSE, thrown |-> Err(<<>>), ok |-> FALSE, jsonOk |-> FALSE,
            data |-> JUndef, hasText |-> FALSE, text |-> <<>>, bytes |-> <<>>,
            contentType |-> UNDEF]
\* the call rejects
Throws(message) == [NoReply EXCEPT !.threw = TRUE, !.thrown = Err(message)]
\* generateContent resolves; result.text is a string or undefined
TextReply(hasText, text) == [NoReply EXCEPT !.ok = TRUE, !.hasText = hasText, !.text = text]
\* fetch resolves; .json() resolves with data, or rejects
JsonReply(ok, jsonOk, data) == [NoReply EXCEPT !.ok = ok, !.jsonOk = jsonOk, !.data = data]
\* fetch resolves; .arrayBuffer() resolves with bytes, or rejects
BytesReply(ok, bodyOk, bytes, contentType) ==
    [NoReply EXCEPT !.ok = ok, !.jsonOk = bodyOk, !.bytes = bytes,
                    !.contentType = contentType]

RECURSIVE Render(_), RenderItems(_, _)
\* a JSON text of a value
Render(v) ==
    CASE v.t = "str" -> <<TStr(v.s)>>
      [] v.t = "num" -> <<TNum(v.s)>>
      [] v.t = "null" -> <<TNull>>
      [] v.t = "bool" -> <<TWord(v.s)>>
      [] v.t = "arr" -> <<TLBracket>> \o RenderItems(v.items, 1) \o <<TRBracket>>
      [] v.t = "obj" -> <<TLBrace>> \o RenderItems(v.items, 1) \o <<TRBrace>>
      [] v.t = "member" -> <<TStr(v.s), TColon>> \o Render(v.items[1])
RenderItems(items, i) ==
    IF i > Len(items) THEN <<>>
    ELSE Render(items[i]) \o (IF i < Len(items) THEN <<TComma, TSpace>> ELSE <<>>)
            \o RenderItems(items, i + 1)

StringItems == {JStr("Bom dia! *"), JStr("Que seu dia brilhe")}
StringArrays == {JArr(items) : items \in SeqsUpTo(StringItems, MaxItems)}
\* what the text provider may say in well-formed JSON
ProviderValues ==
    StringArrays
        \cup {JArr(<<JNum("1")>>), JArr(<<JStr("Bom dia! *"), JNull>>), JStr("Bom dia! *"),
              JNum("3"), JNull, JObj(<<>>)}
        \cup {JObj(<<JMember("suggestions", a)>>) : a \in StringArrays}
\* ... and the texts it may say: JSON bare, JSON inside white space, JSON cut
\* short, JSON followed by more, and prose
ProviderTexts ==
    {Render(v) : v \in ProviderValues}
        \cup {<<TSpace>> \o Render(v) \o <<TNbsp, TSpace>> : v \in ProviderValues}
        \cup {SubSeq(Render(v), 1, Len(Render(v)) - 1) : v \in ProviderValues}
        \cup {Render(v) \o <<TWord("fim")>> : v \in StringArrays}
        \cup {<<TLBracket, TNbsp, TRBracket>>, <<TWord(SAFETY)>>,
              <<TWord("Desculpe"), TSpace, TWord(SAFETY)>>}

GeminiReplies ==
    {Throws(m) : m \in UpstreamMessages}
        \cup {TextReply(FALSE, <<>>)}
        \cup {TextReply(TRUE, t) : t \in ProviderTexts}

JobId == "job-1"
SubmitData ==
    {JNull, JObj(<<>>), JObj(<<JMember("id", JStr(JobId))>>),
     JObj(<<JMember("id", JStr(JobId)), JMember("message", JStr("ok"))>>),
     JObj(<<JMember("message", JStr("rate limited"))>>),
     JObj(<<JMember("message", JStr(SAFETY))>>),
     JObj(<<JMember("id", JStr("")), JMember("message", JStr(""))>>)}
SubmitReplies ==
    {Throws(m) : m \in UpstreamMessages}
        \cup {JsonReply(ok, FALSE, JUndef) : ok \in BOOLEAN}
        \cup {JsonReply(ok, TRUE, d) : ok \in BOOLEAN, d \in SubmitData}

ImgUrl == "https://horde.example/img.webp"
Generation == JObj(<<JMember("img", JStr(ImgUrl)), JMember("seed", JStr("7"))>>)
CheckData ==
    {JNull, JObj(<<>>), JObj(<<JMember("done", JFalse)>>),
     JObj(<<JMember("done", JFalse), JMember("message", JStr("not found"))>>),
     JObj(<<JMember("done", JTrue)>>),
     JObj(<<JMember("done", JTrue), JMember("generations", JArr(<<>>))>>),
     JObj(<<JMember("done", JTrue), JMember("generations", JArr(<<Generation>>))>>),
     JObj(<<JMember("done", JTrue), JMember("generations", JArr(<<JObj(<<>>)>>))>>)}
CheckReplies ==
    {Throws(m) : m \in UpstreamMessages}
        \cup {JsonReply(TRUE, FALSE, JUndef)}
        \cup {JsonReply(ok, TRUE, d) : ok \in BOOLEAN, d \in CheckData}

ByteValues == {0, 77, 255}
ContentTypes == {UNDEF, "", "image/png"}
DownloadReplies ==
    {Throws(m) : m \in UpstreamMessages}
        \cup {BytesReply(FALSE, TRUE, <<>>, UNDEF), BytesReply(TRUE, FALSE, <<>>, UNDEF)}
        \cup {BytesReply(TRUE, TRUE, b, ct) :
                b \in SeqsUpTo(ByteValues, MaxBytes), ct \in ContentTypes}

(***************************************************************************)
(* Two invocations in one process.  Node runs one invocation at a time and *)
(* changes over only at an await, so that the second invocation is kept    *)
(* aside with all its locals while the first one runs; log is what an      *)
(* invocation has received so far: the replies of the providers, with the  *)
(* engine that worded a SyntaxError, and the timers that fired.  Nothing   *)
(* is logged while a single invocation is run.                             *)
(***************************************************************************)
NoInvocation ==
    [req |-> NoRequest, pc |-> "idle", generationId |-> UNDEF, retries |-> 0,
     finalData |-> JUndef, response |-> NoResponse, sent |-> 0, calls |-> <<>>,
     upstream |-> NoReply, caught |-> NotCaught, log |-> <<>>]
NoPeer == [on |-> FALSE, log |-> <<>>, other |-> NoInvocation]
TwoInvocations == [NoPeer EXCEPT !.on = TRUE]

\* the invocation that is running
Running ==
    [req |-> req, pc |-> pc, generationId |-> generationId, retries |-> retries,
     finalData |-> finalData, response |-> response, sent |-> sent, calls |-> calls,
     upstream |-> upstream, caught |-> caught, log |-> peer.log]

TimerFired == [NoReply EXCEPT !.ok = TRUE]
Logged(reply, newV8) ==
    IF peer.on THEN [peer EXCEPT !.log = Append(@, <<reply, newV8>>)] ELSE peer

(***************************************************************************)
(* The handler of api/gemini-proxy.ts (lines 7-134), one action per        *)
(* stretch of code between two awaits.                                     *)
(***************************************************************************)
MaxRetries == 20
PollDelayMs == 5000
AnonymousHordeKey == "0000000000"

Call(op, arg) == [op |-> op, arg |-> arg, res |-> "pending"]
\* the latest call, settled
Settle(cs, res) == [cs EXCEPT ![Len(cs)].res = res]

\* line 10: the diagnostic log line (no effect on the response)
GeminiKeyLooksSet == Truthy(env.GEMINI_API_KEY)

\* MethodAllowed with a slip: only GET is turned away
MethodAllowed_OnlyGetRefused(r) == r.method # "GET"

\* line 16
MethodAllowed(r) == r.method = "POST"

\* EnvelopeInvalid with a slip: the payload is not looked at
EnvelopeInvalid_ActionOnly(r) ==
    ~Truthy(IF r.hasBody THEN r.action ELSE UNDEF)

\* lines 21-23: const {action, payload} = request.body || {}; !action || !payload
EnvelopeInvalid(r) ==
    LET action == IF r.hasBody THEN r.action ELSE UNDEF
        payloadKind == IF r.hasBody THEN r.payload.kind ELSE "undefined"
    IN  ~Truthy(action) \/ payloadKind \in {"undefined", "null"}

\* GeminiKeyMissing with a slip: only an unset variable counts as missing
GeminiKeyMissing_UnsetOnly == env.GEMINI_API_KEY = UNDEF

\* line 29
GeminiKeyMissing == ~Truthy(env.GEMINI_API_KEY)

\* line 54: process.env.STABLE_HORDE_API_KEY || '0000000000'
HordeApiKey ==
    IF Truthy(env.STABLE_HORDE_API_KEY) THEN env.STABLE_HORDE_API_KEY
    ELSE AnonymousHordeKey

\* line 34
SuggestionsPrompt(payload) ==
    <<"Gere 3 sugestoes de mensagens de ", payload.messageType, " com um tema ",
      payload.theme>>

\* line 58
ImagePrompt(payload) ==
    <<"Estilo: ", payload.imageStyle, " sobre ", payload.message, " texto ",
      payload.messageType>>

\* Route with a slip: whatever is not getSuggestions generates an image
Route_ImageByDefault(r) ==
    IF r.action = "getSuggestions" THEN "getSuggestions" ELSE "generateImage"

\* lines 28, 53, 122: the action's route
Route(r) ==
    CASE r.action = "getSuggestions" -> "getSuggestions"
      [] r.action = "generateImage" -> "generateImage"
      [] OTHER -> "unknown"

\* lines 8-76: from the entry to the first await (or to an early answer)
Invoke(r) ==
    /\ pc = "idle"
    /\ req' = r
    /\ UNCHANGED <<env, generationId, retries, finalData, upstream, client, appVars, contactVars, peer>>
    /\ IF ~MethodAllowed(r)
       THEN Answer(ErrorResponse(405, MsgMethodNotAllowed)) /\ UNCHANGED calls
       ELSE IF EnvelopeInvalid(r)
       THEN Answer(ErrorResponse(400, MsgInvalidRequest)) /\ UNCHANGED calls
       ELSE IF Route(r) = "getSuggestions"
       THEN IF GeminiKeyMissing
            THEN Answer(ErrorResponse(500, MsgGeminiKeyMissing)) /\ UNCHANGED calls
            ELSE /\ calls' = Append(calls, Call("generateContent",
                                                <<env.GEMINI_API_KEY>> \o SuggestionsPrompt(r.payload)))
                 /\ Continue("awaitGenerateContent")
       ELSE IF Route(r) = "generateImage"
       THEN /\ calls' = Append(calls, Call("submit", <<HordeApiKey>> \o ImagePrompt(r.payload)))
            /\ Continue("awaitSubmit")
       ELSE Answer(ErrorResponse(400, MsgUnknownAction)) /\ UNCHANGED calls

\* lines 36-49: generateContent settles; JSON.parse(result.text.trim())
GenerateContentReturns(reply, newV8) ==
    /\ pc = "awaitGenerateContent"
    /\ upstream' = reply
    /\ peer' = Logged(reply, newV8)
    /\ UNCHANGED <<env, req, generationId, retries, finalData, client, appVars, contactVars>>
    /\ IF reply.threw
       THEN Catch(reply.thrown) /\ calls' = Settle(calls, "threw")
       ELSE /\ calls' = Settle(calls, "returned")
            /\ IF ~reply.hasText
               THEN Catch(Err(MsgTypeError("undefined", "trim")))
               ELSE LET parsed == JSONParse(Trim(reply.text)) IN
                    IF ~parsed.ok
                    THEN \E m \in SyntaxErrorMessages(Trim(reply.text)) :
                            /\ (m = <<"Unexpected token in JSON">>) = ~newV8
                            /\ Catch(Err(m))
                    ELSE Answer(JsonResponse(200, parsed.val))

\* PollOrLeave with a slip: the loop test is retries <= maxRetries
PollOrLeave_OneMore(r, cs, leave) ==
    IF r <= MaxRetries
    THEN /\ calls' = Append(cs, Call("wait", <<ToString(PollDelayMs)>>))
         /\ Continue("sleep")
    ELSE leave

\* line 91: the loop test; a timer is set when the loop goes round
PollOrLeave(r, cs, leave) ==
    IF r < MaxRetries
    THEN /\ calls' = Append(cs, Call("wait", <<ToString(PollDelayMs)>>))
         /\ Continue("sleep")
    ELSE leave

\* lines 104-109 with finalData set: the generations are read and the image fetched
AfterLoop(fd, cs) ==
    LET generations == GetProp(fd, "generations") IN
    IF Nullish(generations)
    THEN Catch(Err(MsgTypeError(generations.t, "length"))) /\ calls' = cs
    ELSE IF IsArray(generations) /\ Len(generations.items) = 0
    THEN Catch(Err(MsgHordeTimeout)) /\ calls' = cs
    ELSE LET first == IF IsArray(generations) THEN generations.items[1] ELSE JUndef IN
         IF Nullish(first)
         THEN Catch(Err(MsgTypeError(first.t, "img"))) /\ calls' = cs
         ELSE LET img == GetProp(first, "img") IN
              /\ calls' = Append(cs, Call("download",
                                          <<IF img.t = "str" THEN img.s ELSE UNDEF>>))
              /\ Continue("awaitDownload")

\* lines 78-91: the submission settles
SubmitReturns(reply) ==
    /\ pc = "awaitSubmit"
    /\ upstream' = reply
    /\ peer' = Logged(reply, FALSE)
    /\ UNCHANGED <<env, req, finalData, client, appVars, contactVars>>
    /\ IF reply.threw
       THEN /\ Catch(reply.thrown) /\ calls' = Settle(calls, "threw")
            /\ UNCHANGED <<generationId, retries>>
       ELSE IF ~reply.jsonOk
       THEN /\ Catch(Err(<<"Unexpected token in JSON">>)) /\ calls' = Settle(calls, "threw")
            /\ UNCHANGED <<generationId, retries>>
       ELSE IF Nullish(reply.data)
       THEN /\ Catch(Err(MsgTypeError(reply.data.t, "id")))
            /\ calls' = Settle(calls, "rejected")
            /\ UNCHANGED <<generationId, retries>>
       ELSE IF ~reply.ok \/ ~TruthyJ(GetProp(reply.data, "id"))
       THEN LET message == GetProp(reply.data, "message") IN
            /\ Catch(Err(<<MsgHordeStartPrefix,
                           IF TruthyJ(message) THEN message.s ELSE MsgHordeUnknown>>))
            /\ calls' = Settle(calls, "rejected")
            /\ UNCHANGED <<generationId, retries>>
       ELSE /\ generationId' = GetProp(reply.data, "id").s
            /\ retries' = 0
            /\ PollOrLeave(0, Settle(calls, "accepted"),
                           Catch(Err(MsgHordeTimeout)) /\ calls' = Settle(calls, "accepted"))

\* lines 92-94: the 5 s timer fires and the status is asked for
TimerFires ==
    /\ pc = "sleep"
    /\ calls' = Append(Settle(calls, "fired"), Call("check", <<generationId>>))
    /\ Continue("awaitCheck")
    /\ peer' = Logged(TimerFired, FALSE)
    /\ UNCHANGED <<env, req, generationId, retries, finalData, upstream, client, appVars, contactVars>>

\* lines 95-109: the status check settles
CheckReturns(reply) ==
    /\ pc = "awaitCheck"
    /\ upstream' = reply
    /\ peer' = Logged(reply, FALSE)
    /\ UNCHANGED <<env, req, generationId, client, appVars, contactVars>>
    /\ IF reply.threw
       THEN /\ Catch(reply.thrown) /\ calls' = Settle(calls, "threw")
            /\ UNCHANGED <<retries, finalData>>
       ELSE IF ~reply.jsonOk
       THEN /\ Catch(Err(<<"Unexpected token in JSON">>)) /\ calls' = Settle(calls, "threw")
            /\ UNCHANGED <<retries, finalData>>
       ELSE IF Nullish(reply.data)
       THEN /\ Catch(Err(MsgTypeError(reply.data.t, "done")))
            /\ calls' = Settle(calls, "threw")
            /\ UNCHANGED <<retries, finalData>>
       ELSE IF TruthyJ(GetProp(reply.data, "done"))
       THEN /\ finalData' = reply.data
            /\ UNCHANGED retries
            /\ AfterLoop(reply.data, Settle(calls, "done"))
       ELSE /\ retries' = retries + 1
            /\ UNCHANGED finalData
            /\ PollOrLeave(retries + 1, Settle(calls, "notdone"),
                           Catch(Err(MsgHordeTimeout)) /\ calls' = Settle(calls, "notdone"))

\* a URL fetch can parse
ValidUrl(u) == u # UNDEF

\* line 116
MimeType(reply) == IF Truthy(reply.contentType) THEN reply.contentType ELSE "image/webp"

\* lines 115-117
DataUri(reply) == <<"data:", MimeType(reply), ";base64,">> \o Base64(reply.bytes)

\* lines 109-119: the download settles
DownloadReturns(reply) ==
    /\ pc = "awaitDownload"
    /\ ValidUrl(calls[Len(calls)].arg[1]) \/ reply.threw
    /\ upstream' = reply
    /\ peer' = Logged(reply, FALSE)
    /\ UNCHANGED <<env, req, generationId, retries, finalData, client, appVars, contactVars>>
    /\ IF reply.threw
       THEN Catch(reply.thrown) /\ calls' = Settle(calls, "threw")
       ELSE IF ~reply.ok
       THEN Catch(Err(MsgDownloadFailed)) /\ calls' = Settle(calls, "failed")
       ELSE IF ~reply.jsonOk
       THEN Catch(Err(<<"terminated">>)) /\ calls' = Settle(calls, "threw")
       ELSE /\ Answer(ImageResponse(200, DataUri(reply)))
            /\ calls' = Settle(calls, "downloaded")

(***************************************************************************)
(* The client library (services/geminiService.ts).                         *)
(***************************************************************************)
PROXY_URL == "/api/gemini-proxy"

NoAnswer == [failed |-> FALSE, status |-> 0, body |-> <<>>]
\* the network fails: fetch rejects
NetworkError == [failed |-> TRUE, status |-> 0, body |-> <<>>]
\* an HTTP answer: its status and the text of its body
HttpAnswer(status, body) == [failed |-> FALSE, status |-> status, body |-> body]

NoResult == [kind |-> "none", value |-> JUndef, message |-> <<>>]
Returned(v) == [kind |-> "returned", value |-> v, message |-> <<>>]
Threw(message) == [kind |-> "threw", value |-> JUndef, message |-> message]

NoEnvelope == [url |-> UNDEF, method |-> UNDEF, action |-> UNDEF,
               payload |-> Payload("undefined", UNDEF, UNDEF)]
NoClient == [pc |-> "idle", fn |-> UNDEF, envelope |-> NoEnvelope,
             answer |-> NoAnswer, result |-> NoResult]

MsgNotAnArray == <<"A resposta do servidor para sugestoes nao estava no formato esperado.">>
MsgNoImageUrl == <<"A resposta do servidor para a imagem nao continha uma URL valida.">>
MsgStatus(status) == <<"Erro no servidor (codigo: ", ToString(status), ")">>

\* String(v), as new Error(v) applies it to its argument
ToStringJ(v) ==
    CASE v.t \in {"str", "num", "bool"} -> <<v.s>>
      [] v.t = "obj" -> <<"[object Object]">>
      [] v.t = "arr" -> [i \in 1..Len(v.items) |-> v.items[i].s]
      [] OTHER -> <<v.t>>

\* Response.ok
ResponseOk(status) == status >= 200 /\ status <= 299

\* lines 15-22: callProxy once response.json() has settled
CallProxy(answer) ==
    LET parsed == JSONParse(answer.body) IN
    IF ~parsed.ok THEN Threw(<<"Unexpected token in JSON">>)
    ELSE IF ~ResponseOk(answer.status)
    THEN IF Nullish(parsed.val) THEN Threw(MsgTypeError(parsed.val.t, "error"))
         ELSE IF TruthyJ(GetProp(parsed.val, "error"))
         THEN Threw(ToStringJ(GetProp(parsed.val, "error")))
         ELSE Threw(MsgStatus(answer.status))
    ELSE Returned(parsed.val)

\* lines 29-33
GetGreetingSuggestions(answer) ==
    LET suggestions == CallProxy(answer) IN
    IF suggestions.kind = "threw" THEN suggestions
    ELSE IF ~IsArray(suggestions.value) THEN Threw(MsgNotAnArray)
    ELSE Returned(suggestions.value)

\* lines 42-46
GenerateImageFromMessage(answer) ==
    LET data == CallProxy(answer) IN
    IF data.kind = "threw" THEN data
    ELSE IF Nullish(data.value) THEN Threw(MsgTypeError(data.value.t, "imageUrl"))
    ELSE LET imageUrl == GetProp(data.value, "imageUrl") IN
         IF imageUrl.t # "str" THEN Threw(MsgNoImageUrl)
         ELSE Returned(imageUrl)

ClientFunctions == {"getGreetingSuggestions", "generateImageFromMessage"}

\* lines 7-13, 29, 42: a library function is called and the fetch goes out
ClientCalls(fn, mt, th) ==
    /\ client.pc = "idle"
    /\ client' = [client EXCEPT
            !.pc = "awaitFetch", !.fn = fn,
            !.envelope = [url |-> PROXY_URL, method |-> "POST",
                          action |-> IF fn = "getGreetingSuggestions"
                                     THEN "getSuggestions" ELSE "generateImage",
                          payload |-> Payload("object", mt, th)]]
    /\ UNCHANGED <<proxyVars, appVars, contactVars>>

\* line 7: the fetch settles
ClientFetchSettles(answer) ==
    /\ client.pc = "awaitFetch"
    /\ client' = IF answer.failed
                 THEN [client EXCEPT !.pc = "done", !.answer = answer,
                                     !.result = Threw(<<"Failed to fetch">>)]
                 ELSE [client EXCEPT !.pc = "awaitJson", !.answer = answer]
    /\ UNCHANGED <<proxyVars, appVars, contactVars>>

\* lines 15-22 and the caller's check: response.json() settles
ClientJsonSettles ==
    /\ client.pc = "awaitJson"
    /\ client' = [client EXCEPT
            !.pc = "done",
            !.result = IF client.fn = "getGreetingSuggestions"
                       THEN GetGreetingSuggestions(client.answer)
                       ELSE GenerateImageFromMessage(client.answer)]
    /\ UNCHANGED <<proxyVars, appVars, contactVars>>

Statuses == {200, 201, 400, 405, 500, 503, 504}
\* what a body may hold in JSON
AnswerValues ==
    StringArrays
        \cup {JArr(<<JNum("1")>>), JNull, JStr("ok"), JObj(<<>>),
              JObj(<<JMember("error", JStr("Acao desconhecida."))>>),
              JObj(<<JMember("error", JStr(""))>>),
              JObj(<<JMember("error", JObj(<<JMember("code", JNum("429"))>>))>>),
              JObj(<<JMember("imageUrl", JStr("data:image/webp;base64,AA=="))>>),
              JObj(<<JMember("imageUrl", JNull)>>),
              JObj(<<JMember("imageUrl", JArr(<<JStr("data:image/webp;base64,AA==")>>))>>)}
\* bodies: JSON, an HTML error page, nothing
AnswerBodies ==
    {Render(v) : v \in AnswerValues}
        \cup {<<TWord("<html>"), TSpace, TWord("FUNCTION_INVOCATION_TIMEOUT")>>, <<>>}
ProxyAnswers ==
    {NetworkError} \cup {HttpAnswer(st, b) : st \in Statuses, b \in AnswerBodies}

(***************************************************************************)
(* The form controller, src/App.tsx.  The component's useState values are  *)
(* the record app; a handler runs to its first await in one step, and the  *)
(* rest of it runs when the awaited call of the client library settles.    *)
(* React renders between two events, so an event handler and an effect see *)
(* the values of the latest render.                                        *)
(***************************************************************************)
\* the runs of handleGetSuggestions and of handleGenerateImage in one run
MaxFetches == 3

ImageStyles == {"Realista", "Aquarela"}

\* the error state: null, or a message
NoError == [is |-> FALSE, message |-> <<>>]
ErrorOf(message) == [is |-> TRUE, message |-> message]

MsgSuggestionsFailed == <<"Falha ao buscar sugestoes.">>
MsgSelectMessage == <<"Por favor, selecione ou escreva uma mensagem primeiro.">>
MsgImageUnknown == <<"Ocorreu um erro desconhecido ao gerar a imagem.">>

\* lines 13-22: the initial values of the useState calls
InitialApp ==
    [mounted |-> FALSE,
     messageType |-> "Bom dia", theme |-> "Generico",
     suggestions |-> <<>>, message |-> JStr(""),
     imageStyle |-> "Realista", generatedImage |-> JNull,
     isLoadingSuggestions |-> FALSE, isLoadingImage |-> FALSE,
     error |-> NoError]

NoFetches == [suggestions |-> {}, image |-> {}]

NoSettle == [kind |-> "none", id |-> 0, ok |-> FALSE]
\* started, imageStarted: fetches begun; overlapping: selector changes made
\* while a suggestions fetch was in flight; handlerRuns: runs of
\* handleGenerateImage; lastOkItems: what the suggestions fetch that
\* succeeded last returned; last: the fetch that settled last; overtaken: the
\* image fetches in flight that a suggestions fetch has been started after
NoHistory ==
    [started |-> 0, imageStarted |-> 0, overlapping |-> 0, handlerRuns |-> 0,
     lastOkItems |-> <<>>,
     last |-> NoSettle,
     overtaken |-> {}]

\* what the things a user may type into the message box are
TypedMessages == {JStr(""), JStr("Ola")}

\* the answers of the proxy the form controller is run against
AppAnswers ==
    {NetworkError,
     HttpAnswer(200, Render(JArr(<<>>))),
     HttpAnswer(200, Render(JArr(<<JStr("Bom dia!")>>))),
     HttpAnswer(200, Render(JArr(<<JStr("Boa noite!"), JStr("Bom dia!")>>))),
     HttpAnswer(200, Render(JObj(<<JMember("imageUrl", JStr("data:image/webp;base64,AA=="))>>))),
     HttpAnswer(500, Render(JObj(<<JMember("error", JStr("Acao desconhecida."))>>)))}

\* what a call of the client library gives its caller for this answer
LibraryResult(fn, answer) ==
    IF answer.failed THEN Threw(<<"Failed to fetch">>)
    ELSE IF fn = "getGreetingSuggestions" THEN GetGreetingSuggestions(answer)
    ELSE GenerateImageFromMessage(answer)

\* the same for the answers of a run, worked out once
LibraryResults ==
    [fn \in ClientFunctions, answer \in AppAnswers |-> LibraryResult(fn, answer)]

\* EffectClosure with a slip: the handler of the render before is called
EffectClosure_Stale(before, after) == before

\* lines 58-61: the render whose handleGetSuggestions the effect calls, the
\* one that has just been committed
EffectClosure(before, after) == after

\* lines 35-39: handleGetSuggestions up to its await, with the messageType
\* and theme of the render it closes over
BeginSuggestions(after, closure, isChange) ==
    /\ hist.started + hist.handlerRuns < MaxFetches
    /\ app' = [after EXCEPT !.isLoadingSuggestions = TRUE, !.error = NoError,
                            !.generatedImage = JNull]
    /\ inflight' = [inflight EXCEPT !.suggestions =
            @ \cup {[id |-> hist.started + 1, messageType |-> closure.messageType,
                     theme |-> closure.theme]}]
    /\ hist' = [hist EXCEPT
            !.started = @ + 1,
            !.overlapping = IF isChange /\ inflight.suggestions # {} THEN @ + 1 ELSE @,
            !.overtaken = {f.id : f \in inflight.image}]

\* lines 58-61 at the first render: the effect runs once
Mount ==
    /\ ~app.mounted
    /\ LET after == [app EXCEPT !.mounted = TRUE] IN
       BeginSuggestions(after, EffectClosure(app, after), FALSE)
    /\ UNCHANGED <<proxyVars, client, contactVars>>

\* line 248 and lines 58-61: the first selector changes, the component
\* renders, the effect runs because messageType is one of its dependencies
SelectMessageType(v) ==
    /\ app.mounted /\ v # app.messageType
    /\ LET after == [app EXCEPT !.messageType = v] IN
       BeginSuggestions(after, EffectClosure(app, after), TRUE)
    /\ UNCHANGED <<proxyVars, client, contactVars>>

\* line 251 and lines 58-61: the same for the theme
SelectTheme(v) ==
    /\ app.mounted /\ v # app.theme
    /\ LET after == [app EXCEPT !.theme = v] IN
       BeginSuggestions(after, EffectClosure(app, after), TRUE)
    /\ UNCHANGED <<proxyVars, client, contactVars>>

\* RefreshDisabled with a slip: the button is never disabled
RefreshDisabled_Never(a) == FALSE

\* line 262: the refresh button is disabled while isLoadingSuggestions
RefreshDisabled(a) == a.isLoadingSuggestions

\* line 262: a press of the refresh button
ClickRefresh ==
    /\ app.mounted /\ ~RefreshDisabled(app)
    /\ BeginSuggestions(app, app, FALSE)
    /\ UNCHANGED <<proxyVars, client, contactVars>>

\* OnSuggestions with a slip: the new suggestions are added to the old ones
OnSuggestions_Merged(a, items) ==
    [a EXCEPT !.suggestions = a.suggestions \o items,
              !.message = IF Len(items) > 0 THEN items[1] ELSE JStr("")]

\* OnSuggestions with a slip: suggestions already displayed are kept
OnSuggestions_FirstKept(a, items) ==
    IF a.suggestions # <<>> THEN a
    ELSE [a EXCEPT !.suggestions = items,
                   !.message = IF Len(items) > 0 THEN items[1] ELSE JStr("")]

\* lines 40-45: the fetch gave newSuggestions
OnSuggestions(a, items) ==
    [a EXCEPT !.suggestions = items,
              !.message = IF Len(items) > 0 THEN items[1] ELSE JStr("")]

\* OnSuggestionsError with a slip: the suggestions and the draft are cleared
OnSuggestionsError_Cleared(a, message) ==
    [a EXCEPT !.error = ErrorOf(message), !.suggestions = <<>>, !.message = JStr("")]

\* lines 46-52: the fetch threw; what the library throws is an Error, so the
\* message of line 50 is never used
OnSuggestionsError(a, message) == [a EXCEPT !.error = ErrorOf(message)]

\* lines 39-55: the await of getGreetingSuggestions settles
SuggestionsSettle(f, answer) ==
    /\ f \in inflight.suggestions
    /\ \E result \in {LibraryResults["getGreetingSuggestions", answer]} :
        \E ok \in {result.kind = "returned"} :
          /\ app' = [(IF ok THEN OnSuggestions(app, result.value.items)
                            ELSE OnSuggestionsError(app, result.message))
                        EXCEPT !.isLoadingSuggestions = FALSE]
          /\ hist' = [hist EXCEPT
                !.lastOkItems = IF ok THEN result.value.items ELSE @,
                !.last = [kind |-> "suggestions", id |-> f.id, ok |-> ok]]
    /\ inflight' = [inflight EXCEPT !.suggestions = @ \ {f}]
    /\ UNCHANGED <<proxyVars, client, contactVars>>

\* MessageEmpty with a slip: the draft is not looked at
MessageEmpty_Never(message) == FALSE

\* line 64: !message
MessageEmpty(message) == ~TruthyJ(message)

\* lines 63-72: handleGenerateImage up to its await
HandleGenerateImage ==
    /\ app.mounted
    /\ hist.started + hist.handlerRuns < MaxFetches
    /\ IF MessageEmpty(app.message)
       THEN /\ app' = [app EXCEPT !.error = ErrorOf(MsgSelectMessage)]
            /\ inflight' = inflight
            /\ hist' = [hist EXCEPT !.handlerRuns = @ + 1]
       ELSE /\ app' = [app EXCEPT !.isLoadingImage = TRUE, !.error = NoError]
            /\ inflight' = [inflight EXCEPT !.image =
                    @ \cup {[id |-> hist.imageStarted + 1, message |-> app.message,
                             imageStyle |-> app.imageStyle,
                             messageType |-> app.messageType, theme |-> app.theme]}]
            /\ hist' = [hist EXCEPT !.handlerRuns = @ + 1, !.imageStarted = @ + 1]
    /\ UNCHANGED <<proxyVars, client, contactVars>>

\* GenerateImageDisabled with a slip: isLoadingImage is not looked at
GenerateImageDisabled_MessageOnly(a) == ~TruthyJ(a.message)

\* line 281: the button is disabled while isLoadingImage or with no message
GenerateImageDisabled(a) == a.isLoadingImage \/ ~TruthyJ(a.message)

\* line 281: a press of the button that generates the image
ClickGenerateImage ==
    /\ ~GenerateImageDisabled(app)
    /\ HandleGenerateImage

\* lines 73-74: the fetch gave the image
OnImage(a, image) == [a EXCEPT !.generatedImage = image]

\* lines 75-80: the fetch threw; what the library throws is an Error, so the
\* message of line 78 is never used
OnImageError(a, message) == [a EXCEPT !.error = ErrorOf(message)]

\* lines 81-82: the finally of handleGenerateImage
ImageFinally(a) == [a EXCEPT !.isLoadingImage = FALSE]

\* lines 72-82: the await of generateImageFromMessage settles
ImageSettles(f, answer) ==
    /\ f \in inflight.image
    /\ \E result \in {LibraryResults["generateImageFromMessage", answer]} :
          /\ app' = ImageFinally(IF result.kind = "returned"
                                 THEN OnImage(app, result.value)
                                 ELSE OnImageError(app, result.message))
          /\ hist' = [hist EXCEPT
                !.last = [kind |-> "image", id |-> f.id,
                          ok |-> result.kind = "returned"],
                !.overtaken = @ \ {f.id}]
    /\ inflight' = [inflight EXCEPT !.image = @ \ {f}]
    /\ UNCHANGED <<proxyVars, client, contactVars>>

\* line 257: a suggestion is picked
ClickSuggestion(i) ==
    /\ app.mounted /\ i \in 1..Len(app.suggestions)
    /\ app' = [app EXCEPT !.message = app.suggestions[i]]
    /\ UNCHANGED <<proxyVars, client, inflight, hist, contactVars>>

\* line 266: the message box is edited
EditMessage(text) ==
    /\ app.mounted /\ text # app.message
    /\ app' = [app EXCEPT !.message = text]
    /\ UNCHANGED <<proxyVars, client, inflight, hist, contactVars>>

\* line 277: another image style is chosen
SelectImageStyle(v) ==
    /\ app.mounted /\ v # app.imageStyle
    /\ app' = [app EXCEPT !.imageStyle = v]
    /\ UNCHANGED <<proxyVars, client, inflight, hist, contactVars>>

\* lines 192-204: the error banner is dismissed
DismissError ==
    /\ app.mounted /\ app.error.is
    /\ app' = [app EXCEPT !.error = NoError]
    /\ UNCHANGED <<proxyVars, client, inflight, hist, contactVars>>

(***************************************************************************)
(* The contact list of src/App.tsx.  A string is the sequence of its       *)
(* characters, so that the id of an imported contact is the concatenation  *)
(* the code computes.                                                      *)
(***************************************************************************)
\* contacts the list may hold, contacts one selection may hold
MaxContacts == 2
MaxSelect == 2

\* the readings of Date.now() during a run, in milliseconds
ClockReadings == {1, 2}

NoAlert == <<>>
MsgNoNameOrTel == <<"A API de contatos nao tem suporte para nome e telefone neste navegador.">>
MsgImportFailed == <<"Nao foi possivel importar os contatos.">>
MsgImportUnsupported == <<"Seu navegador nao suporta a importacao de contatos.">>

\* what is typed into the two inputs of the add-contact form
TypedNames == {<<>>, <<"A">>}
TypedPhones == {<<>>, <<"1">>, <<"2">>}

\* the contacts of the device, as navigator.contacts.select gives them: the
\* names and the numbers of each; two of them have the same first number, and
\* one of these has no name
DeviceBook ==
    {[name |-> <<<<"A">>>>, tel |-> <<<<"1">>>>],
     [name |-> <<>>, tel |-> <<<<"1">>, <<"2">>>>],
     [name |-> <<<<"C">>>>, tel |-> <<<<"2">>>>]}
Selections == SeqsUpTo(DeviceBook, MaxSelect)
PropertyLists == {<<"name", "tel">>, <<"email", "tel", "name">>, <<"name">>, <<>>}

\* how a call of the Contact Picker API settles: it rejects, or it resolves
\* with an array
PickerThrows == [threw |-> TRUE, value |-> <<>>]
PickerGives(value) == [threw |-> FALSE, value |-> value]
PropertiesReplies == {PickerThrows} \cup {PickerGives(v) : v \in PropertyLists}
SelectReplies == {PickerThrows} \cup {PickerGives(v) : v \in Selections}

\* lines 9-11 and the clock: the form is closed and empty, no import runs
InitialContactUi ==
    [showAddContact |-> FALSE, newContactName |-> <<>>, newContactPhone |-> <<>>,
     importing |-> "no", now |-> 1, alert |-> NoAlert]

\* Number.prototype.toString of a clock reading
RECURSIVE Digits(_)
Digits(n) == IF n < 10 THEN <<ToString(n)>> ELSE Digits(n \div 10) \o <<ToString(n % 10)>>

\* xs[0]: undefined when the array is empty
ArrayFirst(xs) == IF xs = <<>> THEN <<UNDEF>> ELSE xs[1]

\* window.alert is modal: no event is handled before the box is closed
AlertShown == contactUi.alert # NoAlert

\* lines 100, 120, 123: the box of an alert is closed
CloseAlert ==
    /\ AlertShown
    /\ contactUi' = [contactUi EXCEPT !.alert = NoAlert]
    /\ UNCHANGED <<proxyVars, client, appVars, contacts>>

\* the clock moves on
Tick ==
    /\ contactUi.now + 1 \in ClockReadings
    /\ contactUi' = [contactUi EXCEPT !.now = @ + 1]
    /\ UNCHANGED <<proxyVars, client, appVars, contacts>>

\* line 236: the add-contact form is opened
OpenAddContact ==
    /\ ~AlertShown /\ ~contactUi.showAddContact
    /\ contactUi' = [contactUi EXCEPT !.showAddContact = TRUE]
    /\ UNCHANGED <<proxyVars, client, appVars, contacts>>

\* line 230: the form is closed again
CancelAddContact ==
    /\ ~AlertShown /\ contactUi.showAddContact
    /\ contactUi' = [contactUi EXCEPT !.showAddContact = FALSE]
    /\ UNCHANGED <<proxyVars, client, appVars, contacts>>

\* lines 226-227: the two inputs of the form
TypeContact(name, phone) ==
    /\ ~AlertShown /\ contactUi.showAddContact
    /\ <<name, phone>> # <<contactUi.newContactName, contactUi.newContactPhone>>
    /\ contactUi' = [contactUi EXCEPT !.newContactName = name, !.newContactPhone = phone]
    /\ UNCHANGED <<proxyVars, client, appVars, contacts>>

\* lines 85-92: handleAddContact, called by the button of the form
HandleAddContact ==
    /\ ~AlertShown /\ contactUi.showAddContact
    /\ IF contactUi.newContactName # <<>> /\ contactUi.newContactPhone # <<>>
       THEN /\ Len(contacts) < MaxContacts
            /\ contacts' = Append(contacts,
                    [id |-> Digits(contactUi.now), name |-> contactUi.newContactName,
                     phone |-> contactUi.newContactPhone])
            /\ contactUi' = [contactUi EXCEPT
                    !.newContactName = <<>>, !.newContactPhone = <<>>,
                    !.showAddContact = FALSE]
       ELSE UNCHANGED <<contacts, contactUi>>
    /\ UNCHANGED <<proxyVars, client, appVars>>

\* lines 94-96 and 122-124: handleImportContacts up to its first await; the
\* browser has the Contact Picker API or it has not
ClickImport(supported) ==
    /\ ~AlertShown /\ contactUi.importing = "no"
    /\ contactUi' = IF supported
                    THEN [contactUi EXCEPT !.importing = "getProperties"]
                    ELSE [contactUi EXCEPT !.alert = MsgImportUnsupported]
    /\ UNCHANGED <<proxyVars, client, appVars, contacts>>

\* Array.prototype.includes
ArrayIncludes(xs, x) == \E i \in 1..Len(xs) : xs[i] = x

\* lines 98-102 and 118-121: getProperties settles
PropertiesSettle(reply) ==
    /\ contactUi.importing = "getProperties"
    /\ contactUi' =
          IF reply.threw
          THEN [contactUi EXCEPT !.importing = "no", !.alert = MsgImportFailed]
          ELSE IF ~ArrayIncludes(reply.value, "name") \/ ~ArrayIncludes(reply.value, "tel")
          THEN [contactUi EXCEPT !.importing = "no", !.alert = MsgNoNameOrTel]
          ELSE [contactUi EXCEPT !.importing = "select"]
    /\ UNCHANGED <<proxyVars, client, appVars, contacts>>

\* lines 106-110: the contact made of one selected device contact
NewContact(contact) ==
    [id |-> ArrayFirst(contact.tel) \o ArrayFirst(contact.name),
     name |-> ArrayFirst(contact.name), phone |-> ArrayFirst(contact.tel)]

\* UniqueNewContacts with a slip: nothing is filtered out
UniqueNewContacts_Unfiltered(prev, newContacts) == newContacts

\* lines 112-116: the functional update of the list
UniqueNewContacts(prev, newContacts) ==
    LET existingPhones == {prev[i].phone : i \in 1..Len(prev)}
        Fresh(c) == c.phone \notin existingPhones
    IN SelectSeq(newContacts, Fresh)

\* lines 104-121: select settles
SelectSettles(reply) ==
    /\ contactUi.importing = "select"
    /\ IF reply.threw
       THEN /\ contactUi' = [contactUi EXCEPT !.importing = "no", !.alert = MsgImportFailed]
            /\ contacts' = contacts
       ELSE /\ contactUi' = [contactUi EXCEPT !.importing = "no"]
            /\ IF Len(reply.value) > 0
               THEN LET deviceContacts == reply.value
                        newContacts ==
                            [i \in 1..Len(deviceContacts) |-> NewContact(deviceContacts[i])]
                        appended == UniqueNewContacts(contacts, newContacts)
                    IN /\ Len(contacts) + Len(appended) <= MaxContacts
                       /\ contacts' = contacts \o appended
               ELSE contacts' = contacts
    /\ UNCHANGED <<proxyVars, client, appVars>>

\* lines 128-130 and 214: handleRemoveContact, called by the button of an entry
HandleRemoveContact(i) ==
    /\ ~AlertShown /\ i \in 1..Len(contacts)
    /\ LET id == contacts[i].id
           Others(c) == c.id # id
       IN contacts' = SelectSeq(contacts, Others)
    /\ UNCHANGED <<proxyVars, client, appVars, contactUi>>

\* the form controller before its first render
AppIdle ==
    /\ app = InitialApp /\ inflight = NoFetches /\ hist = NoHistory
    /\ contacts = <<>> /\ contactUi = InitialContactUi

ProxyIdle ==
    /\ env = [GEMINI_API_KEY |-> UNDEF, STABLE_HORDE_API_KEY |-> UNDEF]
    /\ req = NoRequest
    /\ pc = "idle"
    /\ generationId = UNDEF
    /\ retries = 0
    /\ finalData = JUndef
    /\ response = NoResponse
    /\ sent = 0
    /\ calls = <<>>
    /\ upstream = NoReply
    /\ caught = NotCaught
    /\ peer = NoPeer

InitApp == ProxyIdle /\ client = NoClient /\ AppIdle

\* the events of the message and image panels, as the rendered page lets
\* them happen
NextApp ==
    \/ Mount
    \/ \E v \in MessageTypes : SelectMessageType(v)
    \/ \E v \in Themes : SelectTheme(v)
    \/ ClickRefresh
    \/ \E f \in inflight.suggestions, answer \in AppAnswers : SuggestionsSettle(f, answer)
    \/ \E i \in 1..MaxItems : ClickSuggestion(i)
    \/ \E text \in TypedMessages : EditMessage(text)
    \/ \E v \in ImageStyles : SelectImageStyle(v)
    \/ ClickGenerateImage
    \/ \E f \in inflight.image, answer \in AppAnswers : ImageSettles(f, answer)
    \/ DismissError

SpecApp == InitApp /\ [][NextApp]_vars

\* the same, with handleGenerateImage also called whatever the button shows
NextHandlers ==
    \/ NextApp
    \/ HandleGenerateImage

SpecHandlers == InitApp /\ [][NextHandlers]_vars

\* the events of the contact panel
NextContacts ==
    \/ Tick
    \/ OpenAddContact
    \/ CancelAddContact
    \/ \E name \in TypedNames, phone \in TypedPhones : TypeContact(name, phone)
    \/ HandleAddContact
    \/ \E supported \in BOOLEAN : ClickImport(supported)
    \/ \E reply \in PropertiesReplies : PropertiesSettle(reply)
    \/ \E reply \in SelectReplies : SelectSettles(reply)
    \/ \E i \in 1..MaxContacts : HandleRemoveContact(i)
    \/ CloseAlert

SpecContacts == InitApp /\ [][NextContacts]_vars

InitClient ==
    /\ env = [GEMINI_API_KEY |-> UNDEF, STABLE_HORDE_API_KEY |-> UNDEF]
    /\ req = NoRequest
    /\ pc = "idle"
    /\ generationId = UNDEF
    /\ retries = 0
    /\ finalData = JUndef
    /\ response = NoResponse
    /\ sent = 0
    /\ calls = <<>>
    /\ upstream = NoReply
    /\ caught = NotCaught
    /\ peer = NoPeer
    /\ client = NoClient
    /\ AppIdle

NextClient ==
    \/ \E fn \in ClientFunctions, mt \in MessageTypes, th \in Themes : ClientCalls(fn, mt, th)
    \/ \E answer \in ProxyAnswers : ClientFetchSettles(answer)
    \/ ClientJsonSettles

SpecClient == InitClient /\ [][NextClient]_vars

InitProxy ==
    /\ env \in [GEMINI_API_KEY : EnvValues, STABLE_HORDE_API_KEY : EnvValues]
    /\ req = NoRequest
    /\ pc = "idle"
    /\ generationId = UNDEF
    /\ retries = 0
    /\ finalData = JUndef
    /\ response = NoResponse
    /\ sent = 0
    /\ calls = <<>>
    /\ upstream = NoReply
    /\ caught = NotCaught
    /\ peer = NoPeer

Init == InitProxy /\ client = NoClient /\ AppIdle

Next ==
    \/ \E r \in Requests : Invoke(r)
    \/ \E reply \in GeminiReplies, newV8 \in BOOLEAN : GenerateContentReturns(reply, newV8)
    \/ \E reply \in SubmitReplies : SubmitReturns(reply)
    \/ TimerFires
    \/ \E reply \in CheckReplies : CheckReturns(reply)
    \/ \E reply \in DownloadReplies : DownloadReturns(reply)

Spec == Init /\ [][Next]_vars

\* every provider call returns or fails in the end and every timer fires: the
\* awaits of lines 36, 78, 92, 93 and 109 all settle.  Whether a request ever
\* arrives is up to the caller.
UpstreamSettles ==
    /\ WF_vars(\E reply \in GeminiReplies, newV8 \in BOOLEAN : GenerateContentReturns(reply, newV8))
    /\ WF_vars(\E reply \in SubmitReplies : SubmitReturns(reply))
    /\ WF_vars(TimerFires)
    /\ WF_vars(\E reply \in CheckReplies : CheckReturns(reply))
    /\ WF_vars(\E reply \in DownloadReplies : DownloadReturns(reply))

SpecLive == Init /\ [][Next]_vars /\ UpstreamSettles

\* the locals of the handler (the const and let of lines 21-116) and its
\* parameters, taken from an invocation
Resume(inv) ==
    /\ req' = inv.req
    /\ pc' = inv.pc
    /\ generationId' = inv.generationId
    /\ retries' = inv.retries
    /\ finalData' = inv.finalData
    /\ response' = inv.response
    /\ sent' = inv.sent
    /\ calls' = inv.calls
    /\ upstream' = inv.upstream
    /\ caught' = inv.caught

\* Switch with a slip: retries is a variable of the module, shared by the
\* invocations, and stays as the invocation that ran left it
Switch_SharedRetries ==
    /\ peer.on
    /\ Resume([peer.other EXCEPT !.retries = retries])
    /\ peer' = [peer EXCEPT !.log = peer.other.log, !.other = Running]
    /\ UNCHANGED <<env, client, appVars, contactVars>>

\* the running invocation is at an await (or over) and the event loop goes
\* on with the other one: each finds its own locals as it left them
Switch ==
    /\ peer.on
    /\ Resume(peer.other)
    /\ peer' = [peer EXCEPT !.log = peer.other.log, !.other = Running]
    /\ UNCHANGED <<env, client, appVars, contactVars>>

\* the running invocation has returned; the next request starts a new one
Return ==
    /\ peer.on /\ pc = "done"
    /\ Resume(NoInvocation)
    /\ peer' = [peer EXCEPT !.log = <<>>]
    /\ UNCHANGED <<env, client, appVars, contactVars>>

\* the requests, credentials and replies two invocations are run with
TwoRequests ==
    {[method |-> "GET", hasBody |-> FALSE, action |-> UNDEF,
      payload |-> Payload("undefined", UNDEF, UNDEF)]}
        \cup {[method |-> "POST", hasBody |-> TRUE, action |-> a,
                payload |-> Payload("object", "Bom dia", "Generico")] :
                    a \in {"getSuggestions", "generateImage", "bogus"}}
TwoGeminiReplies ==
    {Throws(<<SAFETY>>), TextReply(FALSE, <<>>),
     TextReply(TRUE, <<TWord("oops")>>),
     TextReply(TRUE, Render(JArr(<<JStr("Bom dia!")>>)))}
TwoSubmitReplies ==
    {Throws(<<"fetch failed">>),
     JsonReply(TRUE, TRUE, JObj(<<JMember("id", JStr(JobId))>>)),
     JsonReply(FALSE, TRUE, JObj(<<JMember("message", JStr("rate limited"))>>))}
TwoCheckReplies ==
    {Throws(<<"fetch failed">>),
     JsonReply(TRUE, TRUE, JObj(<<JMember("done", JFalse)>>)),
     JsonReply(TRUE, TRUE, JObj(<<JMember("done", JTrue), JMember("generations", JArr(<<>>))>>)),
     JsonReply(TRUE, TRUE, JObj(<<JMember("done", JTrue),
                                 JMember("generations", JArr(<<Generation>>))>>))}
TwoDownloadReplies ==
    {Throws(<<"fetch failed">>), BytesReply(FALSE, TRUE, <<>>, UNDEF),
     BytesReply(TRUE, TRUE, <<77>>, "image/png")}

InitTwo ==
    /\ env \in {[GEMINI_API_KEY |-> UNDEF, STABLE_HORDE_API_KEY |-> UNDEF],
                [GEMINI_API_KEY |-> "key-0123456789", STABLE_HORDE_API_KEY |-> ""]}
    /\ req = NoRequest
    /\ pc = "idle"
    /\ generationId = UNDEF
    /\ retries = 0
    /\ finalData = JUndef
    /\ response = NoResponse
    /\ sent = 0
    /\ calls = <<>>
    /\ upstream = NoReply
    /\ caught = NotCaught
    /\ peer = TwoInvocations
    /\ client = NoClient /\ AppIdle

NextTwo ==
    \/ \E r \in TwoRequests : Invoke(r)
    \/ \E reply \in TwoGeminiReplies, newV8 \in BOOLEAN : GenerateContentReturns(reply, newV8)
    \/ \E reply \in TwoSubmitReplies : SubmitReturns(reply)
    \/ TimerFires
    \/ \E reply \in TwoCheckReplies : CheckReturns(reply)
    \/ \E reply \in TwoDownloadReplies : DownloadReturns(reply)
    \/ Switch
    \/ Return

SpecTwo == InitTwo /\ [][NextTwo]_vars

(***************************************************************************)
(* Properties of the proxy handler.                                        *)
(***************************************************************************)
Invoked == pc # "idle"
Done == pc = "done"
NoProviderCall == calls = <<>>
CallsOf(op) == {i \in 1..Len(calls) : calls[i].op = op}
\* the envelope carries a truthy action and a truthy payload
EnvelopeComplete == req.hasBody /\ Truthy(req.action) /\ req.payload.kind = "object"

\* C1: a request whose method is not POST is answered 405 with an {error} body,
\* whatever its body and the credentials, and no provider is called.
C1_NonPostIs405 ==
    (Invoked /\ req.method # "POST")
        => /\ Done /\ sent = 1
           /\ response.status = 405 /\ response.kind = "error"
           /\ NoProviderCall

C1_Witness ==
    /\ Done /\ req.method = "PUT" /\ EnvelopeComplete /\ req.action = "generateImage"
    /\ Truthy(env.GEMINI_API_KEY) /\ Truthy(env.STABLE_HORDE_API_KEY)
    /\ response.status = 405

\* C2: a POST whose body is absent, or whose action or payload is missing
\* (falsy), is answered 400 with an {error} body and no provider call,
\* whatever the credentials.
C2_IncompleteEnvelopeIs400 ==
    (Invoked /\ req.method = "POST" /\ ~EnvelopeComplete)
        => /\ Done /\ sent = 1
           /\ response.status = 400 /\ response.kind = "error"
           /\ NoProviderCall

C2_Witness ==
    /\ Done /\ req.method = "POST" /\ req.hasBody
    /\ req.action = "getSuggestions" /\ req.payload.kind = "null"
    /\ Truthy(env.GEMINI_API_KEY)
    /\ response.status = 400

\* C3: a POST with a payload and an action that is neither getSuggestions nor
\* generateImage is answered 400 with the unknown-action message and no
\* provider call.
C3_UnknownActionIs400 ==
    (Invoked /\ req.method = "POST" /\ EnvelopeComplete
        /\ req.action \notin {"getSuggestions", "generateImage"})
        => /\ Done /\ sent = 1
           /\ response = ErrorResponse(400, MsgUnknownAction)
           /\ NoProviderCall

C3_Witness ==
    /\ Done /\ req.method = "POST" /\ EnvelopeComplete /\ req.action = "GenerateImage"
    /\ response = ErrorResponse(400, MsgUnknownAction)

\* the answer C4 expects for a failure with this message
C4_Expected(message) ==
    IF \E i \in 1..Len(message) : message[i] = "SAFETY"
    THEN ErrorResponse(400, MsgContentPolicy)
    ELSE ErrorResponse(500, message)

\* C4: a failure whose message contains SAFETY is answered 400 with the
\* content-policy message, never 500; every other failure raised while the
\* action is handled is answered 500 with the failure's own message.  Both
\* for the errors a provider call rejects with and for the errors the
\* handler raises itself.
C4_SafetyIs400OthersAre500 ==
    /\ (Done /\ upstream.threw) => response = C4_Expected(upstream.thrown.message)
    /\ caught.is => /\ Done /\ sent = 1
                    /\ response = C4_Expected(caught.thrown.message)
    /\ (Done /\ response.status = 500 /\ ~caught.is)
            => response = ErrorResponse(500, MsgGeminiKeyMissing)

C4_Witness ==
    /\ Done /\ req.action = "generateImage" /\ upstream.threw
    /\ Len(upstream.thrown.message) = 3
    /\ response = ErrorResponse(400, MsgContentPolicy)
    /\ Cardinality(CallsOf("check")) = 2

\* the checks of the poll loop that have been answered "not done"
ChecksNotDone == {i \in CallsOf("check") : calls[i].res = "notdone"}
\* the generations of the check that reported done
DoneGenerations == GetProp(finalData, "generations")

\* C5: once the job id is there, at most 20 status checks are made, each one
\* right after one 5-second wait of its own; no check follows a check that
\* reported done; when 20 checks have reported not done, or the done result
\* carries an empty list of generations, the answer is 500 with the timeout
\* error and no download is attempted (a done result with no list at all is
\* answered 500 too, with no download).
C5_BoundedPolling ==
    /\ Cardinality(CallsOf("check")) <= 20
    /\ \A i \in CallsOf("check") :
          /\ i > 2
          /\ calls[i - 1] = [op |-> "wait", arg |-> <<"5000">>, res |-> "fired"]
          /\ calls[i - 2].op # "wait"
          /\ calls[1] = [op |-> "submit", arg |-> calls[1].arg, res |-> "accepted"]
    /\ \A i \in CallsOf("wait") :
          i = Len(calls) \/ calls[i + 1].op = "check"
    /\ Cardinality(CallsOf("wait")) <= 20
    /\ \A i \in CallsOf("check") :
          calls[i].res = "done" => \A j \in CallsOf("check") \cup CallsOf("wait") : j <= i
    /\ \A i \in CallsOf("check") :
          (calls[i].res = "notdone" /\ i < Len(calls)) => calls[i + 1].op = "wait"
    /\ Cardinality(ChecksNotDone) = 20
          => /\ Done /\ sent = 1
             /\ response = ErrorResponse(500, MsgHordeTimeout)
             /\ CallsOf("download") = {}
    /\ (finalData # JUndef /\ (Nullish(DoneGenerations) \/ DoneGenerations = JArr(<<>>)))
          => /\ Done /\ sent = 1
             /\ response.status = 500 /\ response.kind = "error"
             /\ DoneGenerations = JArr(<<>>) => response.error = MsgHordeTimeout
             /\ CallsOf("download") = {}
    /\ retries = Cardinality(ChecksNotDone)

C5_Witness ==
    /\ Done /\ Cardinality(ChecksNotDone) = 20 /\ Cardinality(CallsOf("wait")) = 20
    /\ response = ErrorResponse(500, MsgHordeTimeout)

\* the position of a character in the base64 alphabet
B64Index(c) == CHOOSE n \in 0..63 : B64Chars[n + 1] = c

\* the bytes four base64 characters stand for
B64Ungroup(g) ==
    LET n12 == B64Index(g[1]) * 64 + B64Index(g[2]) IN
    IF g[3] = "=" THEN <<n12 \div 16>>
    ELSE LET n18 == n12 * 64 + B64Index(g[3]) IN
         IF g[4] = "=" THEN <<n18 \div 1024, (n18 \div 4) % 256>>
         ELSE LET n24 == n18 * 64 + B64Index(g[4]) IN
              <<n24 \div 65536, (n24 \div 256) % 256, n24 % 256>>

RECURSIVE Base64Decode(_)
Base64Decode(chars) ==
    IF chars = <<>> THEN <<>>
    ELSE B64Ungroup(SubSeq(chars, 1, 4)) \o Base64Decode(SubSeq(chars, 5, Len(chars)))

\* C6: a 200 {imageUrl} is sent only after, in this order, one submission
\* that was accepted with a job id, status checks of which the last reported
\* done with at least one generation, and one successful download of that
\* generation's image; imageUrl is "data:" + the download's Content-Type
\* (image/webp when the header is absent or empty) + ";base64," + the base64
\* of the downloaded bytes.  Neither the submission nor the download is ever
\* made twice.
C6_ImageOnlyAfterSubmitCheckDownload ==
    /\ Cardinality(CallsOf("submit")) <= 1 /\ Cardinality(CallsOf("download")) <= 1
    /\ (response.status = 200 /\ req.action = "generateImage")
          => LET n == Len(calls)
                 url == response.imageUrl
             IN  /\ Done /\ sent = 1 /\ response.kind = "image" /\ ~caught.is
                 /\ n >= 4
                 /\ calls[1].op = "submit" /\ calls[1].res = "accepted"
                 /\ generationId = JobId
                 /\ \A i \in 2..(n - 1) : calls[i].op \in {"wait", "check"}
                 /\ calls[n - 1] = [op |-> "check", arg |-> <<JobId>>, res |-> "done"]
                 /\ Len(DoneGenerations.items) >= 1
                 /\ calls[n] = [op |-> "download",
                                arg |-> <<GetProp(DoneGenerations.items[1], "img").s>>,
                                res |-> "downloaded"]
                 /\ upstream.ok /\ ~upstream.threw
                 /\ Len(url) >= 3
                 /\ url[1] = "data:"
                 /\ url[2] = (IF upstream.contentType \in {UNDEF, ""}
                              THEN "image/webp" ELSE upstream.contentType)
                 /\ url[3] = ";base64,"
                 /\ Len(url) = 3 + 4 * ((Len(upstream.bytes) + 2) \div 3)
                 /\ Base64Decode(SubSeq(url, 4, Len(url))) = upstream.bytes
    /\ response.kind = "image" => (response.status = 200 /\ req.action = "generateImage")

C6_Witness ==
    /\ Done /\ response.status = 200 /\ response.kind = "image"
    /\ upstream.bytes = <<255, 77>> /\ upstream.contentType = UNDEF
    /\ response.imageUrl = <<"data:", "image/webp", ";base64,", "/", "0", "0", "=">>
    /\ Cardinality(CallsOf("check")) = 3

\* a complete POST envelope for this action
Asked(action) ==
    Invoked /\ req.method = "POST" /\ EnvelopeComplete /\ req.action = action

\* C7, as claimed: for both actions, the provider's credential being absent
\* (GEMINI_API_KEY for getSuggestions, STABLE_HORDE_API_KEY for
\* generateImage) is answered with a configuration error and no call to that
\* provider.
C7_AsClaimed ==
    /\ (Asked("getSuggestions") /\ env.GEMINI_API_KEY = UNDEF)
          => (Done /\ response.kind = "error" /\ CallsOf("generateContent") = {})
    /\ (Asked("generateImage") /\ env.STABLE_HORDE_API_KEY = UNDEF)
          => (Done /\ response.kind = "error" /\ CallsOf("submit") = {})

\* C7, amended: with GEMINI_API_KEY absent (or empty) getSuggestions is
\* answered 500 with the configuration error and the text provider is not
\* called; with STABLE_HORDE_API_KEY absent (or empty) generateImage is not
\* refused: the job is submitted to Stable Horde under the anonymous key
\* "0000000000", and under the configured key otherwise.
C7_GeminiKeyRequiredHordeKeyOptional ==
    /\ (Asked("getSuggestions") /\ env.GEMINI_API_KEY \in {UNDEF, ""})
          => /\ Done /\ sent = 1
             /\ response = ErrorResponse(500, MsgGeminiKeyMissing)
             /\ NoProviderCall
    /\ (Asked("getSuggestions") /\ env.GEMINI_API_KEY \notin {UNDEF, ""})
          => /\ Cardinality(CallsOf("generateContent")) = 1
             /\ calls[1].op = "generateContent"
             /\ calls[1].arg[1] = env.GEMINI_API_KEY
    /\ Asked("generateImage")
          => /\ calls # <<>> /\ calls[1].op = "submit"
             /\ calls[1].arg[1] = (IF env.STABLE_HORDE_API_KEY \in {UNDEF, ""}
                                   THEN "0000000000" ELSE env.STABLE_HORDE_API_KEY)
             /\ response # ErrorResponse(500, MsgGeminiKeyMissing)

C7_Witness ==
    /\ Asked("generateImage") /\ env.STABLE_HORDE_API_KEY = UNDEF
    /\ env.GEMINI_API_KEY = UNDEF
    /\ Done /\ response.status = 200
    /\ calls[1].arg[1] = "0000000000"

\* the texts that are a JSON array of these strings: bare, and inside white space
TextsOfArray(a) ==
    {Render(a), <<TSpace>> \o Render(a) \o <<TNbsp, TSpace>>}

\* C8: for every messageType and theme, with the text credential configured
\* and the provider returning the text of a JSON array of strings (the empty
\* array too), getSuggestions is answered 200 with that array, same elements
\* in the same order, and nothing fails.
C8_StringArrayIsReturned ==
    \A mt \in {"Bom dia", "Boa noite"}, th \in {"Generico", "Cristao"} :
      \A a \in StringArrays :
        (/\ Done /\ Asked("getSuggestions") /\ Truthy(env.GEMINI_API_KEY)
         /\ req.payload.messageType = mt /\ req.payload.theme = th
         /\ ~upstream.threw /\ upstream.hasText /\ upstream.text \in TextsOfArray(a))
            => /\ response.status = 200 /\ response.kind = "json"
               /\ response.json.t = "arr"
               /\ Len(response.json.items) = Len(a.items)
               /\ \A i \in 1..Len(a.items) : response.json.items[i] = a.items[i]
               /\ ~caught.is /\ sent = 1

C8_Witness ==
    /\ Done /\ Asked("getSuggestions")
    /\ req.payload.messageType = "Boa noite" /\ req.payload.theme = "Cristao"
    /\ upstream.text = <<TSpace, TLBracket, TStr("Que seu dia brilhe"), TComma, TSpace,
                         TStr("Bom dia! *"), TRBracket, TNbsp, TSpace>>
    /\ response = JsonResponse(200, JArr(<<JStr("Que seu dia brilhe"), JStr("Bom dia! *")>>))

C8_WitnessEmpty ==
    /\ Done /\ Asked("getSuggestions") /\ upstream.text = <<TLBracket, TRBracket>>
    /\ response = JsonResponse(200, JArr(<<>>))

IsStringArray(v) == v.t = "arr" /\ \A i \in 1..Len(v.items) : v.items[i].t = "str"

\* C9, as claimed: getSuggestions is answered 200 only when the provider's
\* text parses to a JSON array of strings; when the provider is unreachable,
\* or its text is not JSON, or is JSON that is not an array of strings, the
\* answer is 500, never a 200 with something that is no array.
C9_AsClaimed ==
    (Done /\ Asked("getSuggestions") /\ Truthy(env.GEMINI_API_KEY))
        => LET parsed == JSONParse(Trim(upstream.text))
               wellFormed == /\ ~upstream.threw /\ upstream.hasText
                             /\ parsed.ok /\ IsStringArray(parsed.val)
           IN  /\ response.status = 200 => (wellFormed /\ IsStringArray(response.json))
               /\ (upstream.threw /\ upstream.thrown.message = <<"fetch failed">>)
                      => response.status = 500
               /\ (~upstream.threw /\ ~wellFormed) => response.status = 500

(***************************************************************************)
(* Properties of the client library.                                       *)
(***************************************************************************)
ClientDone == client.pc = "done"
\* the body of the answer, as JSON
AnswerJson == JSONParse(client.answer.body)
Answer2xx == ~client.answer.failed /\ client.answer.status \in 200..299

\* C10, as claimed: getGreetingSuggestions returns only for a 2xx answer
\* whose body is a JSON array, and returns that array; generateImageFromMessage
\* returns only for a 2xx answer whose body has a string imageUrl, and returns
\* that string; both throw otherwise; for an answer that is not 2xx both throw
\* an error whose message is the server's error text, or the status-code
\* message when the body has none.
C10_AsClaimed ==
    ClientDone =>
      LET okArray == Answer2xx /\ AnswerJson.ok /\ AnswerJson.val.t = "arr"
          okImage == /\ Answer2xx /\ AnswerJson.ok /\ AnswerJson.val.t = "obj"
                     /\ GetProp(AnswerJson.val, "imageUrl").t = "str"
          errorText == IF AnswerJson.ok THEN GetProp(AnswerJson.val, "error") ELSE JUndef
      IN  /\ client.fn = "getGreetingSuggestions"
                => IF okArray THEN client.result = Returned(AnswerJson.val)
                   ELSE client.result.kind = "threw"
          /\ client.fn = "generateImageFromMessage"
                => IF okImage
                   THEN client.result = Returned(GetProp(AnswerJson.val, "imageUrl"))
                   ELSE client.result.kind = "threw"
          /\ (~client.answer.failed /\ ~Answer2xx)
                => /\ client.result.kind = "threw"
                   /\ client.result.message =
                        (IF errorText.t = "str" /\ errorText.s # "" THEN <<errorText.s>>
                         ELSE <<"Erro no servidor (codigo: ",
                                ToString(client.answer.status), ")">>)

\* the part of C10 the library keeps: a value is returned only for a 2xx
\* answer of the expected shape, and it is the answer's own array or imageUrl
C10_ReturnsOnlyWellShaped ==
    (ClientDone /\ client.result.kind = "returned")
        => /\ Answer2xx /\ AnswerJson.ok
           /\ client.fn = "getGreetingSuggestions"
                => (AnswerJson.val.t = "arr" /\ client.result.value = AnswerJson.val)
           /\ client.fn = "generateImageFromMessage"
                => /\ client.result.value.t = "str"
                   /\ client.result.value = GetProp(AnswerJson.val, "imageUrl")

(***************************************************************************)
(* Properties of the form controller.                                      *)
(***************************************************************************)
\* this step is a run of handleGenerateImage
ImageHandlerRuns == hist'.handlerRuns = hist.handlerRuns + 1

\* C11: a run of handleGenerateImage with an empty draft message issues no
\* proxy call, sets the validation error and leaves isLoadingImage and
\* generatedImage as they were; no generateImage request in flight carries an
\* empty message.
C11_EmptyMessageIsRefused ==
    /\ [](\A f \in inflight.image : f.message # JStr(""))
    /\ [][(ImageHandlerRuns /\ app.message = JStr(""))
            => /\ inflight' = inflight
               /\ hist'.imageStarted = hist.imageStarted
               /\ app'.error = ErrorOf(MsgSelectMessage)
               /\ app'.isLoadingImage = app.isLoadingImage
               /\ app'.generatedImage = app.generatedImage]_vars

\* the handler has run on an empty draft while an image was displayed
C11_Witness ==
    /\ hist.handlerRuns = 2 /\ hist.imageStarted = 1
    /\ app.message = JStr("") /\ app.error = ErrorOf(MsgSelectMessage)
    /\ app.generatedImage.t = "str"
    /\ inflight.image = {}

\* this step is the first render, or changes messageType or theme
SelectionChanges ==
    \/ ~app.mounted /\ app'.mounted
    \/ app'.messageType # app.messageType
    \/ app'.theme # app.theme

\* C12: at the initial load and at every change of messageType or theme exactly
\* one suggestions fetch is started, and it carries the messageType and theme
\* selected by that step, never the ones before it.
C12_OneFetchPerChangeWithNewValues ==
    [][SelectionChanges
        => /\ hist'.started = hist.started + 1
           /\ \E f \in inflight'.suggestions :
                /\ f \notin inflight.suggestions
                /\ inflight'.suggestions = inflight.suggestions \cup {f}
                /\ f.messageType = app'.messageType
                /\ f.theme = app'.theme]_vars

\* the fetch of the initial load and the fetch of a change of messageType
C12_Witness ==
    /\ app.messageType = "Boa noite" /\ app.theme = "Generico"
    /\ inflight.suggestions =
            {[id |-> 1, messageType |-> "Bom dia", theme |-> "Generico"],
             [id |-> 2, messageType |-> "Boa noite", theme |-> "Generico"]}

\* this step is a suggestions fetch that settles
SuggestionsSettled ==
    /\ inflight'.suggestions # inflight.suggestions
    /\ inflight'.suggestions \subseteq inflight.suggestions
SuggestionsSucceeded == SuggestionsSettled /\ hist'.last.ok
SuggestionsFailed == SuggestionsSettled /\ ~hist'.last.ok

\* C13: when a suggestions fetch succeeds the displayed suggestions become
\* exactly the returned sequence, in its order, in place of the old ones, and
\* the draft becomes the first of them, or the empty string when none came.
C13_SuccessReplacesSuggestionsAndDraft ==
    [][SuggestionsSucceeded
        => /\ app'.suggestions = hist'.lastOkItems
           /\ app'.message = IF hist'.lastOkItems = <<>> THEN JStr("")
                             ELSE Head(hist'.lastOkItems)]_vars

\* a second fetch has returned two suggestions
C13_Witness ==
    /\ hist.started = 2 /\ inflight.suggestions = {}
    /\ hist.last = [kind |-> "suggestions", id |-> 2, ok |-> TRUE]
    /\ app.suggestions = <<JStr("Boa noite!"), JStr("Bom dia!")>>
    /\ app.message = JStr("Boa noite!")

\* C14: whatever the order in which fetches are started and settle, the
\* displayed suggestions are those of the successful fetch that settled last:
\* an answer that arrived earlier is never displayed after a later one.
C14_LastResponseWins == app.suggestions = hist.lastOkItems

\* two fetches were in flight together; the second settled first, and the
\* answer of the first, which came last, is the one displayed
C14_Witness ==
    /\ hist.started = 2 /\ hist.overlapping = 1 /\ inflight.suggestions = {}
    /\ hist.last = [kind |-> "suggestions", id |-> 1, ok |-> TRUE]
    /\ app.theme = "Cristao"
    /\ app.suggestions = <<JStr("Bom dia!")>>

\* C15 as stated: at most one suggestions fetch is in flight at every moment
C15_AsClaimed == Cardinality(inflight.suggestions) <= 1

\* C15, amended: the refresh button starts a fetch only while
\* isLoadingSuggestions is false, but a change of messageType or theme made
\* while a fetch is in flight starts one more; the fetches in flight are at
\* most one more than the changes made while one was in flight, and at most
\* that many while isLoadingSuggestions is false.
C15_OneFetchPlusOverlappingChanges ==
    /\ Cardinality(inflight.suggestions) <= 1 + hist.overlapping
    /\ ~app.isLoadingSuggestions => Cardinality(inflight.suggestions) <= hist.overlapping
    /\ hist.overlapping = 0 => C15_AsClaimed

\* the refresh button has started the second fetch after the first settled,
\* and no selector has changed while a fetch was in flight
C15_Witness ==
    /\ hist.started = 2 /\ hist.overlapping = 0
    /\ hist.last.kind = "suggestions" /\ hist.last.id = 1
    /\ app.messageType = "Bom dia" /\ app.theme = "Generico"
    /\ Cardinality(inflight.suggestions) = 1

\* C16: with the button disabled while isLoadingImage or while the draft is
\* empty, at most one image fetch is in flight at every moment, and
\* isLoadingImage is true exactly while that fetch is in flight.
C16_OneImageFetchWhileLoading ==
    /\ Cardinality(inflight.image) <= 1
    /\ app.isLoadingImage <=> inflight.image # {}

\* a second image fetch is in flight, begun after the first had settled
C16_Witness ==
    /\ hist.imageStarted = 2 /\ hist.last.kind = "image"
    /\ Cardinality(inflight.image) = 1 /\ app.isLoadingImage

\* this step is an image fetch that settles
ImageSettled ==
    /\ inflight'.image # inflight.image
    /\ inflight'.image \subseteq inflight.image
ImageFailed == ImageSettled /\ ~hist'.last.ok

\* the error text of the body of each answer of a run, when it has one
C20_ServerText ==
    [answer \in AppAnswers |->
        LET parsed == JSONParse(answer.body) IN
        IF ~answer.failed /\ ~ResponseOk(answer.status) /\ parsed.ok
            /\ parsed.val.t = "obj" /\ GetProp(parsed.val, "error").t = "str"
            /\ GetProp(parsed.val, "error").s # ""
        THEN <<GetProp(parsed.val, "error").s>> ELSE <<>>]

\* C20: when a suggestions fetch fails, error becomes the message of the
\* failure (the error text of the server as it is, when the proxy answered
\* outside 2xx with an {error} body) and suggestions and the draft stay as
\* they were; when an image fetch fails, error is set in the same way and
\* generatedImage stays as it was; the loading flag of the operation that
\* failed is false afterwards.
C20_FailureSetsErrorAndKeepsState ==
    [][/\ SuggestionsFailed =>
            \A answer \in AppAnswers, f \in inflight.suggestions \ inflight'.suggestions :
                \A failure \in {LibraryResults["getGreetingSuggestions", answer]} :
                (failure.kind = "threw" /\ SuggestionsSettle(f, answer))
                    => /\ app'.error = ErrorOf(failure.message)
                       /\ C20_ServerText[answer] # <<>>
                            => app'.error.message = C20_ServerText[answer]
                       /\ app'.suggestions = app.suggestions
                       /\ app'.message = app.message
                       /\ ~app'.isLoadingSuggestions
       /\ ImageFailed =>
            \A answer \in AppAnswers, f \in inflight.image \ inflight'.image :
                \A failure \in {LibraryResults["generateImageFromMessage", answer]} :
                (failure.kind = "threw" /\ ImageSettles(f, answer))
                    => /\ app'.error = ErrorOf(failure.message)
                       /\ C20_ServerText[answer] # <<>>
                            => app'.error.message = C20_ServerText[answer]
                       /\ app'.generatedImage = app.generatedImage
                       /\ ~app'.isLoadingImage
      ]_vars

\* the second suggestions fetch was answered 500 with an error text: the text
\* is displayed, and the suggestions of the first fetch and the draft typed
\* since are still there
C20_Witness ==
    /\ hist.last = [kind |-> "suggestions", id |-> 2, ok |-> FALSE]
    /\ app.error = ErrorOf(<<"Acao desconhecida.">>)
    /\ app.suggestions = <<JStr("Bom dia!")>> /\ app.message = JStr("Ola")
    /\ ~app.isLoadingSuggestions /\ inflight.suggestions = {}

(***************************************************************************)
(* Properties of the contact list.                                         *)
(***************************************************************************)
Phones(list) == {list[i].phone : i \in 1..Len(list)}
NoDuplicatePhones(list) ==
    \A i, j \in 1..Len(list) : i # j => list[i].phone # list[j].phone

\* C17 as stated: whatever handleAddContact, handleImportContacts and
\* handleRemoveContact have done, no two contacts of the list have the same
\* phone.
C17_AsClaimed == NoDuplicatePhones(contacts)

\* two contacts typed into the form with the same phone are both in the list
C17_ManualDuplicate ==
    /\ Len(contacts) = 2
    /\ contacts[1].phone = contacts[2].phone
    /\ contacts[1].id = Digits(1) /\ contacts[2].id = Digits(2)

\* this step belongs to handleImportContacts
ImportStep ==
    \/ contactUi'.importing # contactUi.importing
    \/ contactUi'.alert \notin {contactUi.alert, NoAlert}
\* this step is the one in which navigator.contacts.select settles
SelectStep == contactUi.importing = "select" /\ contactUi'.importing = "no"

\* the contacts C18 expects an import to append: those of the selection, in
\* its order, whose phone no contact of the list has
RECURSIVE C18_Expected(_, _)
C18_Expected(existing, deviceContacts) ==
    IF deviceContacts = <<>> THEN <<>>
    ELSE LET c == NewContact(Head(deviceContacts)) IN
         (IF \E i \in 1..Len(existing) : existing[i].phone = c.phone
          THEN <<>> ELSE <<c>>) \o C18_Expected(existing, Tail(deviceContacts))

\* C18: an import never adds a contact whose phone a contact of the list
\* already has: the contacts of the list stay as they are and where they are,
\* and the selected contacts whose phone was not in the list are appended in
\* the order of the selection.  The list is left as it is when the API is
\* missing, lacks name or tel, throws, or returns an empty selection.
C18_ImportAppendsOnlyNewPhones ==
    [][ImportStep
        => /\ Len(contacts') >= Len(contacts)
           /\ SubSeq(contacts', 1, Len(contacts)) = contacts
           /\ \A i \in (Len(contacts) + 1)..Len(contacts') :
                contacts'[i].phone \notin Phones(contacts)
           /\ IF ~SelectStep THEN contacts' = contacts
              ELSE \A reply \in SelectReplies :
                      SelectSettles(reply)
                          => contacts' = IF reply.threw THEN contacts
                                         ELSE contacts \o C18_Expected(contacts, reply.value)
       ]_vars

\* a contact typed into the form is still first, and of a selection holding
\* its phone and another one only the other one was appended
C18_Witness ==
    /\ contactUi.importing = "no"
    /\ contacts = <<[id |-> Digits(1), name |-> <<"A">>, phone |-> <<"1">>],
                    [id |-> <<"2", "C">>, name |-> <<"C">>, phone |-> <<"2">>]>>

\* C19 as stated: an import into a list without duplicate phones leaves a
\* list without duplicate phones, whatever the selection, two selected
\* contacts with the same phone included.
C19_AsClaimed ==
    [][(SelectStep /\ NoDuplicatePhones(contacts)) => NoDuplicatePhones(contacts')]_vars

\* the part of C19 the import keeps: no appended contact has the phone of a
\* contact that was in the list
C19_NoPhoneOfTheListIsAdded ==
    [][SelectStep
        => \A i \in (Len(contacts) + 1)..Len(contacts') :
                contacts'[i].phone \notin Phones(contacts)]_vars

\* two selected contacts with the same phone have both been imported
C19_ImportedDuplicate ==
    /\ Len(contacts) = 2
    /\ contacts[1].phone = contacts[2].phone
    /\ contacts[1].id = <<"1", "A">> /\ contacts[2].id = <<"1", UNDEF>>

\* ---------------------------------------------------------------------------
\* Properties of overlapping fetches
\* ---------------------------------------------------------------------------

\* C28, as stated: isLoadingSuggestions is true if and only if at least one
\* suggestions fetch is in flight, in every reachable state.  The flag is one
\* boolean that every fetch sets at its start (line 35) and clears in its
\* finally (line 54): the first of two overlapping fetches to settle clears it
\* while the other is still awaited.
C28_AsClaimed ==
    app.isLoadingSuggestions <=> inflight.suggestions # {}

\* a suggestions fetch is in flight and the loading flag is false: the overlay
\* is gone and the refresh button is enabled again
C28_ClearedWhilePending ==
    /\ inflight.suggestions # {}
    /\ ~app.isLoadingSuggestions

\* C27, as stated (last-request-wins): whenever a suggestions fetch succeeds
\* and leaves no fetch in flight, the suggestions it displays were requested
\* for the messageType and theme that are selected now.  Nothing changes the
\* suggestions or the selection from then on without starting a fetch, so
\* this is the claim for every state with no fetch in flight whose last
\* completed fetch succeeded.
C27_AsClaimed ==
    [][\A f \in inflight.suggestions \ inflight'.suggestions :
        (SuggestionsSucceeded /\ inflight'.suggestions = {})
            => /\ f.messageType = app'.messageType
               /\ f.theme = app'.theme]_vars

\* C27, amended (last-response-wins): whenever a suggestions fetch succeeds and
\* leaves no fetch in flight, the displayed suggestions are the ones that
\* fetch returned; they were requested for the messageType and theme selected
\* now when that fetch is also the one started last, which is always so while
\* no selector was changed during a fetch.
C27_LastStartedWinsWhenItSettlesLast ==
    [][\A f \in inflight.suggestions \ inflight'.suggestions :
        (SuggestionsSucceeded /\ inflight'.suggestions = {})
            => /\ app'.suggestions = hist'.lastOkItems
               /\ hist.overlapping = 0 => f.id = hist.started
               /\ f.id = hist.started
                    => /\ f.messageType = app'.messageType
                       /\ f.theme = app'.theme]_vars

\* two fetches overlapped after a change of theme; the one of the change
\* settled last, and its answer for the new theme is displayed
C27_Witness ==
    /\ hist.started = 2 /\ hist.overlapping = 1 /\ inflight.suggestions = {}
    /\ hist.last = [kind |-> "suggestions", id |-> 2, ok |-> TRUE]
    /\ app.theme = "Cristao"
    /\ app.suggestions = <<JStr("Boa noite!"), JStr("Bom dia!")>>

\* C29, as stated: a step that starts a suggestions fetch leaves
\* generatedImage null, and from then on a step gives generatedImage a value
\* only by completing an image generation that was requested after that
\* start, never one that was in flight when the suggestions fetch started.
C29_AsClaimed ==
    [][/\ hist'.started > hist.started => app'.generatedImage = JNull
       /\ (app'.generatedImage # app.generatedImage /\ app'.generatedImage # JNull)
            => \E f \in inflight.image \ inflight'.image : f.id \notin hist.overtaken
      ]_vars

\* an image is displayed that was requested before the suggestions fetch
\* started last, for a draft that the fetch has replaced since
C29_StaleImageDisplayed ==
    /\ hist.last = [kind |-> "image", id |-> 1, ok |-> TRUE]
    /\ hist.started = 2 /\ hist.imageStarted = 1
    /\ app.generatedImage # JNull
    /\ inflight.suggestions # {}

\* ---------------------------------------------------------------------------
\* Properties of the removal of a contact
\* ---------------------------------------------------------------------------

\* the list without its i-th entry
C30_WithoutEntry(list, i) ==
    [k \in 1..(Len(list) - 1) |-> IF k < i THEN list[k] ELSE list[k + 1]]

\* C30, as stated: a press of the remove button of the i-th entry of the list
\* deletes exactly that entry; every other contact stays, unchanged and in
\* order.
C30_AsClaimed ==
    [][\A i \in 1..MaxContacts :
        HandleRemoveContact(i) => contacts' = C30_WithoutEntry(contacts, i)]_vars

\* one import has appended two contacts with the same id: the remove button
\* of either filters out both
C30_TwoEntriesOneId ==
    /\ Len(contacts) = 2
    /\ contacts[1].id = contacts[2].id
    /\ contacts[1].id = <<"1", "A">>

\* ---------------------------------------------------------------------------
\* Termination and independence of the proxy handler
\* ---------------------------------------------------------------------------

\* C22: when every upstream call returns or fails in the end, every invocation
\* ends and has sent exactly one response by then, never more than one at
\* any moment; the status of the response is 200, 400, 405 or 500, and a
\* response of another status than 200 has the body {error: <string>}.
C22_OneResponseInTheEnd ==
    /\ Invoked ~> Done
    /\ [](/\ sent <= 1
          /\ Done <=> sent = 1
          /\ Done => /\ response.status \in {200, 400, 405, 500}
                     /\ response.status # 200
                            => /\ response.kind = "error"
                               /\ response.error \in Seq(STRING))

\* the poll loop went round all its turns and the invocation ended with a
\* 500 and the time-out message
C22_Witness ==
    /\ Done /\ sent = 1 /\ Cardinality(CallsOf("check")) = MaxRetries
    /\ response.status = 500 /\ response.kind = "error"
    /\ response.error = MsgHordeTimeout

\* C21: an invocation is where its own request, the credentials and what it
\* has received so far put it, whatever another invocation has done in the
\* meantime: two invocations of one process that were given the same request
\* and have received the same replies are at the same await with the same
\* locals, or both over with the same response, in every interleaving of the
\* two and after any number of earlier invocations.
C21_InvocationsAreIndependent ==
    (peer.on /\ req = peer.other.req /\ peer.log = peer.other.log)
        => Running = peer.other

\* both invocations polled twenty times, their turns interleaved, and both
\* ended with the time-out of their own loop
C21_Witness ==
    /\ peer.on /\ Done /\ peer.other.pc = "done"
    /\ req = peer.other.req /\ peer.log = peer.other.log
    /\ Cardinality(CallsOf("check")) = MaxRetries
    /\ response = ErrorResponse(500, MsgHordeTimeout)
    /\ peer.other.response = response

(***************************************************************************)
(* The other proxy handlers kept under src/unnamed.  One of them is        *)
(* deployed at a time (env.deployed names its file); each is modelled as   *)
(* the handler of api/gemini-proxy.ts is: one action per stretch of code   *)
(* between two awaits, on the same variables.                              *)
(***************************************************************************)
\* a string given by the fragments of its text
JText(fragments) ==
    [t |-> "str", s |-> IF fragments = <<>> THEN "" ELSE "text", items |-> fragments]

\* the TypeError of const {prop} = v on null or undefined
MsgDestructure(prop, what) ==
    <<"Cannot destructure property '", prop, "' of 'payload' as it is ", what, ".">>

\* the handler rejects and nothing answers the request: no catch clause is
\* around the statement that threw
Crash(thrown) ==
    /\ pc' = "crashed"
    /\ caught' = [is |-> FALSE, thrown |-> thrown]
    /\ UNCHANGED <<response, sent>>

\* a catch clause receives thrown and answers r
Fail(thrown, r) ==
    /\ caught' = [is |-> TRUE, thrown |-> thrown]
    /\ Respond(r)

\* what an invocation of these handlers leaves alone
VariantFrame ==
    UNCHANGED <<env, generationId, retries, finalData, client, appVars, contactVars, peer>>

\* a fetch reply with its HTTP status
WithStatus(status, reply) == [status |-> status] @@ reply

\* Blob.type: the content type of the answer, "" when it has none
BlobType(reply) == IF reply.contentType = UNDEF THEN "" ELSE reply.contentType

\* `data:${imageBlob.type};base64,${...}`
BlobDataUri(reply) == <<"data:", BlobType(reply), ";base64,">> \o Base64(reply.bytes)

(***************************************************************************)
(* src/unnamed/part_004: Gemini for the text, Hugging Face for the image.  *)
(***************************************************************************)
HfMsgFieldsSuggestions == <<"Tipo de mensagem e tema sao obrigatorios.">>
HfMsgFieldsImage == <<"Mensagem, estilo da imagem e tipo de mensagem sao obrigatorios.">>
HfMsgSuggestionsFailed == <<"Falha ao se comunicar com a IA para gerar sugestoes.">>
HfMsgKeyMissing == <<"A chave da API do Hugging Face nao esta configurada no servidor.">>
HfMsgGeminiKeyMissing == <<"A chave da API do Gemini nao esta configurada no servidor.">>
HfMsgOptimizeFailed == <<"Falha ao otimizar o prompt para a imagem.">>
HfMsgLoading == <<"O modelo de imagem esta sendo carregado, tente novamente em instantes.">>
HfMsgInvalidBody == "Resposta invalida da API do Hugging Face."
HfMsgPrefix == "Falha ao gerar imagem com Hugging Face: "
HfMsgUnknown == <<"Ocorreu um erro desconhecido.">>
HfMsgUnexpected == <<"Ocorreu um erro inesperado no servidor.">>
HfMsgUnknownAction == <<"Acao desconhecida">>
IsCurrentlyLoading == "is currently loading"

\* HfIsLoading with a slip: any error text counts as the model loading
HfIsLoading_AnyError(errorBody) == TruthyJ(GetProp(errorBody, "error"))

\* line 103: errorBody.error && typeof errorBody.error === 'string' && includes
HfIsLoading(errorBody) ==
    LET error == GetProp(errorBody, "error") IN
    /\ TruthyJ(error)
    /\ error.t = "str"
    /\ Includes(error.items, IsCurrentlyLoading)

\* lines 123-143, 9-37, 49-77: from the entry to the first await
HfHandler(r) ==
    /\ pc = "idle"
    /\ env.deployed = "part_004"
    /\ req' = r
    /\ upstream' = upstream
    /\ VariantFrame
    /\ IF r.method # "POST"
       THEN Answer(ErrorResponse(405, MsgMethodNotAllowed)) /\ UNCHANGED calls
       ELSE IF ~Truthy(env.GEMINI_API_KEY)
       THEN Answer(ErrorResponse(500, HfMsgGeminiKeyMissing)) /\ UNCHANGED calls
       ELSE IF ~r.hasBody
       THEN Crash(Err(<<"Cannot destructure property 'action' of 'req.body' as it is undefined.">>))
            /\ UNCHANGED calls
       ELSE IF r.action \notin {"getSuggestions", "generateImage"}
       THEN Answer(ErrorResponse(400, HfMsgUnknownAction)) /\ UNCHANGED calls
       ELSE IF r.payload.kind # "object"
       THEN LET thrown == Err(MsgDestructure(IF r.action = "getSuggestions"
                                               THEN "messageType" ELSE "message",
                                             r.payload.kind))
            IN  Fail(thrown, ErrorResponse(500, ErrorMessage(thrown))) /\ UNCHANGED calls
       ELSE IF r.action = "getSuggestions"
       THEN IF ~Truthy(r.payload.messageType) \/ ~Truthy(r.payload.theme)
            THEN Answer(ErrorResponse(400, HfMsgFieldsSuggestions)) /\ UNCHANGED calls
            ELSE /\ calls' = Append(calls, Call("generateContent", SuggestionsPrompt(r.payload)))
                 /\ Continue("hf:suggestions")
       ELSE IF \/ ~Truthy(r.payload.message) \/ ~Truthy(r.payload.imageStyle)
               \/ ~Truthy(r.payload.messageType)
       THEN Answer(ErrorResponse(400, HfMsgFieldsImage)) /\ UNCHANGED calls
       ELSE IF ~Truthy(env.HUGGINGFACE_API_KEY)
       THEN Answer(ErrorResponse(500, HfMsgKeyMissing)) /\ UNCHANGED calls
       ELSE /\ calls' = Append(calls, Call("optimize", ImagePrompt(r.payload)))
            /\ Continue("hf:optimize")

\* lines 24-45: generateContent settles; JSON.parse(response.text.trim())
HfSuggestionsReturn(reply) ==
    /\ pc = "hf:suggestions"
    /\ req' = req
    /\ upstream' = reply
    /\ VariantFrame
    /\ IF reply.threw
       THEN /\ Fail(reply.thrown, ErrorResponse(500, HfMsgSuggestionsFailed))
            /\ calls' = Settle(calls, "threw")
       ELSE /\ calls' = Settle(calls, "returned")
            /\ IF ~reply.hasText
               THEN Fail(Err(MsgTypeError("undefined", "trim")),
                         ErrorResponse(500, HfMsgSuggestionsFailed))
               ELSE LET parsed == JSONParse(Trim(reply.text)) IN
                    IF ~parsed.ok
                    THEN Fail(Err(<<"Unexpected token in JSON">>),
                              ErrorResponse(500, HfMsgSuggestionsFailed))
                    ELSE Answer(JsonResponse(200, parsed.val))

\* lines 70-98: the prompt optimiser settles; the image request goes out
HfOptimizeReturns(reply) ==
    /\ pc = "hf:optimize"
    /\ req' = req
    /\ upstream' = reply
    /\ VariantFrame
    /\ IF reply.threw
       THEN /\ Fail(reply.thrown, ErrorResponse(500, HfMsgOptimizeFailed))
            /\ calls' = Settle(calls, "threw")
       ELSE IF ~reply.hasText
       THEN /\ Fail(Err(MsgTypeError("undefined", "trim")),
                    ErrorResponse(500, HfMsgOptimizeFailed))
            /\ calls' = Settle(calls, "returned")
       ELSE /\ calls' = Append(Settle(calls, "returned"),
                               Call("image", <<env.HUGGINGFACE_API_KEY, Trim(reply.text)>>))
            /\ Continue("hf:image")

\* lines 100-119: the answer of the image provider, once its body was read
HfImageResponse(reply) ==
    IF reply.threw
    THEN ErrorResponse(500, <<HfMsgPrefix>> \o ErrorMessage(reply.thrown))
    ELSE IF ~reply.ok
    THEN LET errorBody == IF reply.jsonOk THEN reply.data
                          ELSE JObj(<<JMember("error", JText(<<HfMsgInvalidBody>>))>>)
         IN  IF Nullish(errorBody)
             THEN ErrorResponse(500, <<HfMsgPrefix>> \o MsgTypeError(errorBody.t, "error"))
             ELSE IF HfIsLoading(errorBody)
             THEN ErrorResponse(503, HfMsgLoading)
             ELSE ErrorResponse(500, <<HfMsgPrefix,
                                       "A API do Hugging Face respondeu com o status: ",
                                       ToString(reply.status)>>)
    ELSE IF ~reply.jsonOk
    THEN ErrorResponse(500, <<HfMsgPrefix, "terminated">>)
    ELSE ImageResponse(200, BlobDataUri(reply))

\* lines 88-119: the image request settles
HfImageReturns(reply) ==
    /\ pc = "hf:image"
    /\ req' = req
    /\ upstream' = reply
    /\ VariantFrame
    /\ calls' = Settle(calls, IF reply.threw \/ (reply.ok /\ ~reply.jsonOk) THEN "threw"
                              ELSE IF reply.ok THEN "returned" ELSE "failed")
    /\ LET r == HfImageResponse(reply) IN
       IF r.status \in {200, 503}
       THEN Answer(r)
       ELSE Fail(IF reply.threw THEN reply.thrown
                 ELSE Err(SubSeq(r.error, 2, Len(r.error))), r)
(***************************************************************************)
(* src/unnamed/part_005: Gemini over its REST interface, Hugging Face for  *)
(* the image.                                                              *)
(***************************************************************************)
RestMsgMethod == <<"Method Not Allowed">>
RestMsgInvalidAction == <<"Acao invalida.">>
RestMsgPrefix == "Erro interno do servidor: "
RestMsgTextFailed == <<"Falha ao buscar sugestoes na API do Gemini.">>
RestMsgNoText == <<"A API do Gemini nao retornou sugestoes.">>
RestMsgImageFailed == <<"Falha ao gerar imagem no Hugging Face.">>

\* v[0]
FirstOf(v) == IF v.t = "arr" /\ Len(v.items) >= 1 THEN v.items[1] ELSE JUndef

\* JSON.parse of a value: a string is parsed, a number or boolean is
\* written out and read back, anything else is written out as no JSON text
ParseAny(v) ==
    IF v.t = "str" THEN JSONParse(v.items)
    ELSE [ok |-> v.t \in {"num", "bool", "null"}, val |-> v]

\* lines 146-149: the catch clause's answer
RestCatchResponse(thrown) == ErrorResponse(500, <<RestMsgPrefix>> \o thrown.message)

\* line 55: data.candidates[0]?.content?.parts[0]?.text, or the TypeError of it
RestSuggestionsText(data) ==
    IF Nullish(data) THEN Err(MsgTypeError(data.t, "candidates"))
    ELSE LET candidates == GetProp(data, "candidates") IN
         IF Nullish(candidates) THEN Err(MsgTypeError(candidates.t, "0"))
         ELSE LET first == FirstOf(candidates) IN
              IF Nullish(first) \/ Nullish(GetProp(first, "content")) THEN JUndef
              ELSE LET parts == GetProp(GetProp(first, "content"), "parts") IN
                   IF Nullish(parts) THEN Err(MsgTypeError(parts.t, "0"))
                   ELSE IF Nullish(FirstOf(parts)) THEN JUndef
                   ELSE GetProp(FirstOf(parts), "text")

\* lines 124-140, 24-46, 71-99: from the entry to the first await
RestHandler(r) ==
    /\ pc = "idle"
    /\ env.deployed = "part_005"
    /\ req' = r
    /\ upstream' = upstream
    /\ VariantFrame
    /\ IF r.method # "POST"
       THEN Answer(ErrorResponse(405, RestMsgMethod)) /\ UNCHANGED calls
       ELSE IF ~r.hasBody
       THEN LET thrown == Err(<<"Cannot destructure property 'action' of 'req.body' as it is undefined.">>)
            IN  Fail(thrown, RestCatchResponse(thrown)) /\ UNCHANGED calls
       ELSE IF r.action \notin {"getSuggestions", "generateImage"}
       THEN Answer(ErrorResponse(400, RestMsgInvalidAction)) /\ UNCHANGED calls
       ELSE IF r.payload.kind # "object"
       THEN LET thrown == Err(MsgDestructure(IF r.action = "getSuggestions"
                                               THEN "messageType" ELSE "message",
                                             r.payload.kind))
            IN  Fail(thrown, RestCatchResponse(thrown)) /\ UNCHANGED calls
       ELSE IF r.action = "getSuggestions"
       THEN IF ~Truthy(env.GEMINI_API_KEY)
            THEN Fail(Err(HfMsgGeminiKeyMissing),
                      RestCatchResponse(Err(HfMsgGeminiKeyMissing))) /\ UNCHANGED calls
            ELSE /\ calls' = Append(calls, Call("generateContent",
                                      <<env.GEMINI_API_KEY>> \o SuggestionsPrompt(r.payload)))
                 /\ Continue("rest:suggestions")
       ELSE IF ~Truthy(env.HUGGINGFACE_API_KEY)
       THEN Fail(Err(HfMsgKeyMissing), RestCatchResponse(Err(HfMsgKeyMissing)))
            /\ UNCHANGED calls
       ELSE /\ calls' = Append(calls, Call("image",
                                 <<env.HUGGINGFACE_API_KEY>> \o ImagePrompt(r.payload)))
            /\ Continue("rest:image")

\* lines 48-61 and 136: the fetch of the text settles and its body was read
RestSuggestionsReturn(reply) ==
    /\ pc = "rest:suggestions"
    /\ req' = req
    /\ upstream' = reply
    /\ VariantFrame
    /\ calls' = Settle(calls, IF reply.threw \/ ~reply.jsonOk THEN "threw"
                              ELSE IF reply.ok THEN "returned" ELSE "failed")
    /\ LET thrown ==
            IF reply.threw THEN reply.thrown
            ELSE IF ~reply.jsonOk THEN Err(<<"Unexpected token in JSON">>)
            ELSE IF ~reply.ok THEN Err(RestMsgTextFailed)
            ELSE LET text == RestSuggestionsText(reply.data) IN
                 IF "isError" \in DOMAIN text THEN text
                 ELSE IF ~TruthyJ(text) THEN Err(RestMsgNoText)
                 ELSE IF ~ParseAny(text).ok THEN Err(<<"Unexpected token in JSON">>)
                 ELSE NotCaught.thrown
       IN  IF thrown # NotCaught.thrown
           THEN Fail(thrown, RestCatchResponse(thrown))
           ELSE Answer(JsonResponse(200, ParseAny(RestSuggestionsText(reply.data)).val))

\* lines 101-120 and 141: the image request settles and its body was read
RestImageReturns(reply) ==
    /\ pc = "rest:image"
    /\ req' = req
    /\ upstream' = reply
    /\ VariantFrame
    /\ calls' = Settle(calls, IF reply.threw \/ ~reply.jsonOk THEN "threw"
                              ELSE IF reply.ok THEN "returned" ELSE "failed")
    /\ LET thrown == IF reply.threw THEN reply.thrown
                     ELSE IF ~reply.jsonOk THEN Err(<<"terminated">>)
                     ELSE Err(RestMsgImageFailed)
       IN  IF reply.threw \/ ~reply.jsonOk \/ ~reply.ok
           THEN Fail(thrown, RestCatchResponse(thrown))
           ELSE Answer(ImageResponse(200, BlobDataUri(reply)))

(***************************************************************************)
(* src/unnamed/part_007, lines 1-105: Gemini through its client library,   *)
(* Hugging Face for the image; the module checks both keys when it loads.  *)
(***************************************************************************)
PlainMsgNoAction == <<"Acao nao especificada.">>
PlainMsgInvalidAction(action) == <<"Acao '", action, "' invalida">>
PlainMsgBusy == <<"Falha ao gerar imagem. A API pode estar ocupada, tente novamente em alguns instantes.">>
PlainMsgImagePrefix == "Falha ao gerar imagem com "
HuggingFace == "Hugging Face"

\* lines 6-11: the module throws while it loads
PlainLoadFails == ~Truthy(env.GEMINI_API_KEY) \/ ~Truthy(env.HUGGINGFACE_API_KEY)

\* lines 98-104: the catch clause's answer
PlainCatchResponse(thrown) ==
    ErrorResponse(500, IF Includes(thrown.message, HuggingFace)
                       THEN PlainMsgBusy ELSE MsgInternal)

\* lines 76-92, 18-31, 38-46: from the entry to the first await
PlainHandler(r) ==
    /\ pc = "idle"
    /\ env.deployed = "part_007/1"
    /\ req' = r
    /\ upstream' = upstream
    /\ VariantFrame
    /\ IF PlainLoadFails
       THEN Crash(Err(<<"A chave da API nao esta configurada no servidor.">>))
            /\ UNCHANGED calls
       ELSE IF r.method # "POST"
       THEN Answer(ErrorResponse(405, MsgMethodNotAllowed)) /\ UNCHANGED calls
       ELSE IF ~r.hasBody
       THEN \* line 82 throws and line 99 reads req.body.action again
            Crash(Err(MsgTypeError("undefined", "action"))) /\ UNCHANGED calls
       ELSE IF ~Truthy(r.action)
       THEN Answer(ErrorResponse(400, PlainMsgNoAction)) /\ UNCHANGED calls
       ELSE IF r.action \notin {"getSuggestions", "generateImage"}
       THEN Answer(ErrorResponse(400, PlainMsgInvalidAction(r.action))) /\ UNCHANGED calls
       ELSE IF r.payload.kind # "object"
       THEN LET thrown == Err(MsgDestructure(IF r.action = "getSuggestions"
                                               THEN "messageType" ELSE "message",
                                             r.payload.kind))
            IN  Fail(thrown, PlainCatchResponse(thrown)) /\ UNCHANGED calls
       ELSE IF r.action = "getSuggestions"
       THEN /\ calls' = Append(calls, Call("generateContent", SuggestionsPrompt(r.payload)))
            /\ Continue("plain:suggestions")
       ELSE /\ calls' = Append(calls, Call("optimize", ImagePrompt(r.payload)))
            /\ Continue("plain:optimize")

\* lines 21-33 and 97: generateContent settles
PlainSuggestionsReturn(reply) ==
    /\ pc = "plain:suggestions"
    /\ req' = req
    /\ upstream' = reply
    /\ VariantFrame
    /\ calls' = Settle(calls, IF reply.threw THEN "threw" ELSE "returned")
    /\ LET thrown == IF reply.threw THEN reply.thrown
                     ELSE IF ~reply.hasText THEN Err(MsgTypeError("undefined", "trim"))
                     ELSE Err(<<"Unexpected token in JSON">>)
       IN  IF reply.threw \/ ~reply.hasText \/ ~JSONParse(Trim(reply.text)).ok
           THEN Fail(thrown, PlainCatchResponse(thrown))
           ELSE Answer(JsonResponse(200, JSONParse(Trim(reply.text)).val))

\* lines 43-59: the prompt optimiser settles; the image request goes out
PlainOptimizeReturns(reply) ==
    /\ pc = "plain:optimize"
    /\ req' = req
    /\ upstream' = reply
    /\ VariantFrame
    /\ IF reply.threw \/ ~reply.hasText
       THEN LET thrown == IF reply.threw THEN reply.thrown
                          ELSE Err(MsgTypeError("undefined", "trim"))
            IN  /\ Fail(thrown, PlainCatchResponse(thrown))
                /\ calls' = Settle(calls, IF reply.threw THEN "threw" ELSE "returned")
       ELSE /\ calls' = Append(Settle(calls, "returned"),
                               Call("image", <<env.HUGGINGFACE_API_KEY, Trim(reply.text)>>))
            /\ Continue("plain:image")

\* lines 61-71 and 97: the image request settles and its body was read
PlainImageReturns(reply) ==
    /\ pc = "plain:image"
    /\ req' = req
    /\ upstream' = reply
    /\ VariantFrame
    /\ calls' = Settle(calls, IF reply.threw \/ ~reply.jsonOk THEN "threw"
                              ELSE IF reply.ok THEN "returned" ELSE "failed")
    /\ LET thrown == IF reply.threw THEN reply.thrown
                     ELSE IF ~reply.jsonOk THEN Err(<<"terminated">>)
                     ELSE Err(<<PlainMsgImagePrefix, HuggingFace, ": ", ToString(reply.status)>>)
       IN  IF reply.threw \/ ~reply.jsonOk \/ ~reply.ok
           THEN Fail(thrown, PlainCatchResponse(thrown))
           ELSE Answer(ImageResponse(200, BlobDataUri(reply)))
(***************************************************************************)
(* src/unnamed/part_003: Gemini with an object schema {suggestions: [..]}  *)
(* for the text, Imagen for the image; the module checks API_KEY when it   *)
(* loads.                                                                  *)
(***************************************************************************)
WrappedMsgEnvelope == <<"Acao e payload sao obrigatorios.">>
WrappedMsgFieldsSuggestions == <<"messageType e theme sao obrigatorios para getSuggestions.">>
WrappedMsgFieldsImage == <<"message, imageStyle, messageType e theme sao obrigatorios para generateImage.">>
WrappedMsgPrefix == "Ocorreu um erro ao comunicar com a IA: "
WrappedMsgNoSuggestions == <<"Nao foi possivel gerar sugestoes a partir da resposta da API.">>
WrappedMsgNoImage == <<"A API nao retornou dados de imagem validos.">>

\* a list marker at the start of a line: "-" or "*"
TBullet(s) == Tok("bullet", s)

\* the index of the first line feed of the text, 0 when it has none
RECURSIVE FirstNewline(_, _)
FirstNewline(text, i) ==
    IF i > Len(text) THEN 0
    ELSE IF text[i] = TNewline THEN i
    ELSE FirstNewline(text, i + 1)

\* responseText.split('\n')
RECURSIVE SplitLines(_)
SplitLines(text) ==
    LET i == FirstNewline(text, 1) IN
    IF i = 0 THEN <<text>>
    ELSE <<SubSeq(text, 1, i - 1)>> \o SplitLines(SubSeq(text, i + 1, Len(text)))

\* s.replace(/^[-*]\s*/, '').trim()
StripBullet(line) ==
    Trim(IF line # <<>> /\ Head(line).k = "bullet" THEN TrimStart(Tail(line)) ELSE line)

\* line 59: the lines of the text, markers and white space removed, empty
\* lines dropped
FallbackLines(text) ==
    LET lines == SplitLines(text)
        stripped == [i \in 1..Len(lines) |-> StripBullet(lines[i])]
        kept == SelectSeq(stripped, LAMBDA l : l # <<>>)
    IN  JArr([i \in 1..Len(kept) |-> JText(kept[i])])

\* lines 48-63: what getSuggestions makes of the settled call: a returned
\* value, or an Error
WrappedSuggestions(reply) ==
    LET parsed == IF reply.hasText THEN JSONParse(reply.text)
                  ELSE [ok |-> FALSE, val |-> JUndef]
    IN  IF parsed.ok /\ ~Nullish(parsed.val)
        THEN \* line 51
             IF /\ TruthyJ(GetProp(parsed.val, "suggestions"))
                /\ IsArray(GetProp(parsed.val, "suggestions"))
             THEN GetProp(parsed.val, "suggestions")
             ELSE Err(WrappedMsgNoSuggestions)
        ELSE \* lines 54-60: JSON.parse threw, or line 51 did on null
             IF reply.hasText /\ reply.text # <<>>
             THEN FallbackLines(reply.text)
             ELSE Err(WrappedMsgNoSuggestions)

\* lines 142-148: the catch clause's answer
WrappedCatchResponse(thrown) == ErrorResponse(500, <<WrappedMsgPrefix>> \o thrown.message)

\* lines 10-15 and 101-136, 26, 79: from the entry to the first await
WrappedHandler(r) ==
    /\ pc = "idle"
    /\ env.deployed = "part_003"
    /\ req' = r
    /\ upstream' = upstream
    /\ VariantFrame
    /\ IF ~Truthy(env.API_KEY)
       THEN Crash(Err(<<"API_KEY environment variable is not set">>)) /\ UNCHANGED calls
       ELSE IF r.method # "POST"
       THEN Answer(ErrorResponse(405, RestMsgMethod)) /\ UNCHANGED calls
       ELSE IF ~r.hasBody
       THEN LET thrown == Err(<<"Cannot destructure property 'action' of 'req.body' as it is undefined.">>)
            IN  Fail(thrown, WrappedCatchResponse(thrown)) /\ UNCHANGED calls
       ELSE IF ~Truthy(r.action) \/ r.payload.kind # "object"
       THEN Answer(ErrorResponse(400, WrappedMsgEnvelope)) /\ UNCHANGED calls
       ELSE IF r.action = "getSuggestions"
       THEN IF ~Truthy(r.payload.messageType) \/ ~Truthy(r.payload.theme)
            THEN Answer(ErrorResponse(400, WrappedMsgFieldsSuggestions)) /\ UNCHANGED calls
            ELSE /\ calls' = Append(calls, Call("generateContent", SuggestionsPrompt(r.payload)))
                 /\ Continue("wrapped:suggestions")
       ELSE IF r.action = "generateImage"
       THEN IF \/ ~Truthy(r.payload.message) \/ ~Truthy(r.payload.imageStyle)
               \/ ~Truthy(r.payload.messageType) \/ ~Truthy(r.payload.theme)
            THEN Answer(ErrorResponse(400, WrappedMsgFieldsImage)) /\ UNCHANGED calls
            ELSE /\ calls' = Append(calls, Call("generateImages", ImagePrompt(r.payload)))
                 /\ Continue("wrapped:image")
       ELSE Answer(ErrorResponse(400, RestMsgInvalidAction)) /\ UNCHANGED calls

\* lines 26-63 and 123-124: generateContent settles
WrappedSuggestionsReturn(reply) ==
    /\ pc = "wrapped:suggestions"
    /\ req' = req
    /\ upstream' = reply
    /\ VariantFrame
    /\ calls' = Settle(calls, IF reply.threw THEN "threw" ELSE "returned")
    /\ LET result == IF reply.threw THEN reply.thrown ELSE WrappedSuggestions(reply) IN
       IF "isError" \in DOMAIN result
       THEN Fail(result, WrappedCatchResponse(result))
       ELSE Answer(JsonResponse(200, result))

\* lines 79-95 and 131-137: generateImages settles
WrappedImageReturns(reply) ==
    /\ pc = "wrapped:image"
    /\ req' = req
    /\ upstream' = reply
    /\ VariantFrame
    /\ calls' = Settle(calls, IF reply.threw THEN "threw" ELSE "returned")
    /\ LET images == GetProp(reply.data, "generatedImages")
           first == FirstOf(images)
           image == IF Nullish(first) THEN JUndef ELSE GetProp(first, "image")
           bytes == IF Nullish(image) THEN JUndef ELSE GetProp(image, "imageBytes")
           thrown == IF reply.threw THEN reply.thrown
                     ELSE IF Nullish(reply.data)
                     THEN Err(MsgTypeError(reply.data.t, "generatedImages"))
                     ELSE IF Nullish(images) THEN Err(MsgTypeError(images.t, "0"))
                     ELSE Err(WrappedMsgNoImage)
       IN  IF reply.threw \/ Nullish(reply.data) \/ Nullish(images) \/ ~TruthyJ(bytes)
           THEN Fail(thrown, WrappedCatchResponse(thrown))
           ELSE Answer(ImageResponse(200, <<"data:image/png;base64,", bytes.s>>))
(***************************************************************************)
(* src/unnamed/part_007, lines 221-397: Gemini over its REST interface; a  *)
(* primary image model at Hugging Face and a fallback model.               *)
(***************************************************************************)
PrimaryModel == "stabilityai/stable-diffusion-3-medium-diffusers"
FallbackModel == "stabilityai/stable-diffusion-xl-base-1.0"
FallbackMsgEnvelope == <<"Acao ou payload ausentes na requisicao">>
FallbackMsgGeminiKey == <<"A chave da API do Gemini nao esta configurada no servidor.">>
FallbackMsgHfKey == <<"A chave da API do Hugging Face nao esta configurada.">>
FallbackMsgTextFailed == <<"Falha ao buscar sugestoes da IA.">>
FallbackMsgEmpty == <<"A resposta da IA para sugestoes estava vazia.">>
FallbackMsgFormat == <<"A resposta da IA para sugestoes nao estava no formato esperado.">>
FallbackMsgTwoAttempts == <<"Falha ao gerar imagem no Hugging Face apos duas tentativas.">>

\* lines 392-396: the catch clause's answer
FallbackCatchResponse(thrown) == ErrorResponse(500, <<RestMsgPrefix>> \o thrown.message)

\* line 284: data.candidates?.[0]?.content?.parts?.[0]?.text for a non-null data
FallbackSuggestionsText(data) ==
    LET candidates == GetProp(data, "candidates")
        first == IF Nullish(candidates) THEN JUndef ELSE FirstOf(candidates)
        content == IF Nullish(first) THEN JUndef ELSE GetProp(first, "content")
        parts == IF Nullish(content) THEN JUndef ELSE GetProp(content, "parts")
        part == IF Nullish(parts) THEN JUndef ELSE FirstOf(parts)
    IN  IF Nullish(part) THEN JUndef ELSE GetProp(part, "text")

\* PrimaryFailed with a slip: only a request that threw leads to the fallback
PrimaryFailed_ThrowOnly(reply) == reply.threw

\* lines 343-348: the primary request threw, or its answer is not OK
PrimaryFailed(reply) == reply.threw \/ ~reply.ok

\* lines 310-322: the request to a model of Hugging Face
ImageCall(model, payload) ==
    Call("image", <<model, env.HUGGINGFACE_API_KEY>> \o ImagePrompt(payload) \o <<payload.theme>>)

\* lines 366-389, 255-275, 327-343: from the entry to the first await
FallbackHandler(r) ==
    /\ pc = "idle"
    /\ env.deployed = "part_007/3"
    /\ req' = r
    /\ upstream' = upstream
    /\ VariantFrame
    /\ IF r.method # "POST"
       THEN Answer(ErrorResponse(405, MsgMethodNotAllowed)) /\ UNCHANGED calls
       ELSE IF ~r.hasBody
       THEN LET thrown == Err(<<"Cannot destructure property 'action' of 'req.body' as it is undefined.">>)
            IN  Fail(thrown, FallbackCatchResponse(thrown)) /\ UNCHANGED calls
       ELSE IF ~Truthy(r.action) \/ r.payload.kind # "object"
       THEN Answer(ErrorResponse(400, FallbackMsgEnvelope)) /\ UNCHANGED calls
       ELSE IF r.action = "getSuggestions"
       THEN IF ~Truthy(env.GEMINI_API_KEY)
            THEN Fail(Err(FallbackMsgGeminiKey), FallbackCatchResponse(Err(FallbackMsgGeminiKey)))
                 /\ UNCHANGED calls
            ELSE /\ calls' = Append(calls, Call("generateContent",
                                      <<env.GEMINI_API_KEY>> \o SuggestionsPrompt(r.payload)))
                 /\ Continue("fallback:suggestions")
       ELSE IF r.action = "generateImage"
       THEN IF ~Truthy(env.HUGGINGFACE_API_KEY)
            THEN \* lines 306-308 throw for the primary model, and again for
                 \* the fallback model in the catch clause of line 348
                 Fail(Err(FallbackMsgHfKey), FallbackCatchResponse(Err(FallbackMsgHfKey)))
                 /\ UNCHANGED calls
            ELSE /\ calls' = Append(calls, ImageCall(PrimaryModel, r.payload))
                 /\ Continue("fallback:primary")
       ELSE Answer(ErrorResponse(400, HfMsgUnknownAction)) /\ UNCHANGED calls

\* lines 277-297 and 391: the fetch of the text settles and its body was read
FallbackSuggestionsReturn(reply) ==
    /\ pc = "fallback:suggestions"
    /\ req' = req
    /\ upstream' = reply
    /\ VariantFrame
    /\ calls' = Settle(calls, IF reply.threw \/ ~reply.jsonOk THEN "threw"
                              ELSE IF reply.ok THEN "returned" ELSE "failed")
    /\ LET text == FallbackSuggestionsText(reply.data)
           parsed == ParseAny(text)
           thrown ==
               IF reply.threw THEN reply.thrown
               ELSE IF ~reply.jsonOk THEN Err(<<"Unexpected token in JSON">>)
               ELSE IF ~reply.ok THEN Err(FallbackMsgTextFailed)
               ELSE IF Nullish(reply.data) THEN Err(MsgTypeError(reply.data.t, "candidates"))
               ELSE IF ~TruthyJ(text) THEN Err(FallbackMsgEmpty)
               ELSE IF ~parsed.ok \/ ~IsArray(parsed.val) THEN Err(FallbackMsgFormat)
               ELSE NotCaught.thrown
       IN  IF thrown # NotCaught.thrown
           THEN Fail(thrown, FallbackCatchResponse(thrown))
           ELSE Answer(JsonResponse(200, parsed.val))

\* lines 353-363 and 391: the answer to the request once the latest image
\* reply is the one to build the result from
FallbackImageResult(reply) ==
    IF ~reply.ok
    THEN FallbackCatchResponse(IF reply.jsonOk THEN Err(FallbackMsgTwoAttempts)
                               ELSE Err(<<"terminated">>))
    ELSE IF ~reply.jsonOk THEN FallbackCatchResponse(Err(<<"terminated">>))
    ELSE ImageResponse(200, BlobDataUri(reply))

\* what became of an image request: it threw, it was answered non-OK, its
\* body could not be read, or it returned an image
ImageOutcome(reply) ==
    IF reply.threw THEN "threw"
    ELSE IF ~reply.ok THEN "failed"
    ELSE IF ~reply.jsonOk THEN "unreadable"
    ELSE "returned"

\* lines 343-363: the request to the primary model settles
PrimaryReturns(reply) ==
    /\ pc = "fallback:primary"
    /\ req' = req
    /\ upstream' = reply
    /\ VariantFrame
    /\ IF PrimaryFailed(reply)
       THEN /\ calls' = Append(Settle(calls, ImageOutcome(reply)),
                               ImageCall(FallbackModel, req.payload))
            /\ Continue("fallback:fallback")
       ELSE /\ calls' = Settle(calls, ImageOutcome(reply))
            /\ LET r == FallbackImageResult(reply) IN
               IF r.status = 200 THEN Answer(r) ELSE Fail(Err(<<"terminated">>), r)

\* lines 350-363: the request to the fallback model settles
FallbackReturns(reply) ==
    /\ pc = "fallback:fallback"
    /\ req' = req
    /\ upstream' = reply
    /\ VariantFrame
    /\ calls' = Settle(calls, ImageOutcome(reply))
    /\ IF reply.threw
       THEN Fail(reply.thrown, FallbackCatchResponse(reply.thrown))
       ELSE LET r == FallbackImageResult(reply) IN
            IF r.status = 200 THEN Answer(r)
            ELSE Fail(Err(SubSeq(r.error, 2, Len(r.error))), r)

(***************************************************************************)
(* The environment of these handlers.                                      *)
(***************************************************************************)
Deployments == {"part_003", "part_004", "part_005", "part_007/1", "part_007/3"}
KeyValues == {UNDEF, "key-0123456789"}
VariantEnvs ==
    [deployed : Deployments, API_KEY : KeyValues, GEMINI_API_KEY : KeyValues,
     HUGGINGFACE_API_KEY : KeyValues]

VariantPayloads ==
    {Payload("undefined", UNDEF, UNDEF), Payload("null", UNDEF, UNDEF),
     Payload("object", "Bom dia", "Generico"), Payload("object", "Bom dia", UNDEF),
     Payload("object", UNDEF, "Cristao")}
VariantRequests ==
    {[method |-> m, hasBody |-> FALSE, action |-> UNDEF,
      payload |-> Payload("undefined", UNDEF, UNDEF)] : m \in {"GET", "POST"}}
        \cup [method : {"POST"}, hasBody : {TRUE},
              action : {UNDEF, "getSuggestions", "generateImage", "bogus"},
              payload : VariantPayloads]

\* texts in lines, as a model that ignores the schema writes them
ListTexts ==
    {<<TBullet("-"), TSpace, TWord("Bom dia!"), TNewline,
       TBullet("*"), TNbsp, TWord("Que seu dia brilhe"), TSpace, TNewline, TNewline>>,
     <<TWord("Bom dia!")>>, <<TSpace, TNewline>>, <<>>}
\* what generateContent of the client library may settle with
TextReplies ==
    {Throws(<<"fetch failed">>), TextReply(FALSE, <<>>)}
        \cup {TextReply(TRUE, t) : t \in ProviderTexts \cup ListTexts}
OptimizerReplies ==
    {Throws(<<"fetch failed">>), TextReply(FALSE, <<>>),
     TextReply(TRUE, <<TSpace, TWord("A vibrant sunrise, text 'Bom dia'"), TSpace>>)}

Candidates(text) ==
    JObj(<<JMember("candidates", JArr(<<JObj(<<JMember("content",
        JObj(<<JMember("parts", JArr(<<JObj(<<JMember("text", text)>>)>>))>>))>>)>>))>>)
RestData ==
    {JNull, JObj(<<>>), JObj(<<JMember("candidates", JArr(<<>>))>>),
     JObj(<<JMember("candidates", JArr(<<JObj(<<JMember("content", JObj(<<>>))>>)>>))>>),
     Candidates(JNum("3"))}
        \cup {Candidates(JText(Render(v))) : v \in StringArrays \cup {JObj(<<>>)}}
        \cup {Candidates(JText(t)) : t \in ListTexts}
RestReplies ==
    {WithStatus(0, Throws(<<"fetch failed">>)), WithStatus(200, JsonReply(TRUE, FALSE, JUndef)),
     WithStatus(429, JsonReply(FALSE, FALSE, JUndef)),
     WithStatus(429, JsonReply(FALSE, TRUE, JObj(<<>>)))}
        \cup {WithStatus(200, JsonReply(TRUE, TRUE, d)) : d \in RestData}

ImagenData ==
    {JObj(<<>>), JObj(<<JMember("generatedImages", JArr(<<>>))>>),
     JObj(<<JMember("generatedImages", JArr(<<JObj(<<>>)>>))>>),
     JObj(<<JMember("generatedImages",
            JArr(<<JObj(<<JMember("image", JObj(<<JMember("imageBytes", JStr("iVBORw0KGgo="))>>))>>)>>))>>)}
ImagenReplies ==
    {Throws(<<"fetch failed">>)} \cup {JsonReply(TRUE, TRUE, d) : d \in ImagenData}

HfErrorBodies ==
    {JNull, JObj(<<>>), JText(<<IsCurrentlyLoading>>),
     JObj(<<JMember("error", JText(<<"Model stabilityai/stable-diffusion-xl-base-1.0 ",
                                     IsCurrentlyLoading>>)),
            JMember("estimated_time", JNum("20"))>>),
     JObj(<<JMember("error", JText(<<"Rate limit reached">>))>>),
     JObj(<<JMember("error", JArr(<<JText(<<IsCurrentlyLoading>>)>>))>>),
     JObj(<<JMember("error", JStr(""))>>)}
\* what a request to Hugging Face may settle with: it throws (the network, or
\* the abort of line 241), or answers non-OK with a body, or with an image
HfReplies ==
    {WithStatus(0, Throws(m)) : m \in {<<"fetch failed">>, <<"This operation was aborted">>}}
        \cup {WithStatus(st, JsonReply(FALSE, FALSE, JUndef)) : st \in {500, 503}}
        \cup {WithStatus(st, JsonReply(FALSE, TRUE, d)) : st \in {429, 503}, d \in HfErrorBodies}
        \cup {WithStatus(200, BytesReply(TRUE, FALSE, <<>>, UNDEF))}
        \cup {WithStatus(200, BytesReply(TRUE, TRUE, b, ct)) :
                b \in SeqsUpTo(ByteValues, MaxBytes), ct \in {UNDEF, "image/jpeg"}}

InitVariants ==
    /\ env \in VariantEnvs
    /\ req = NoRequest
    /\ pc = "idle"
    /\ generationId = UNDEF
    /\ retries = 0
    /\ finalData = JUndef
    /\ response = NoResponse
    /\ sent = 0
    /\ calls = <<>>
    /\ upstream = NoReply
    /\ caught = NotCaught
    /\ peer = NoPeer
    /\ client = NoClient
    /\ AppIdle

NextVariants ==
    \/ \E r \in VariantRequests : WrappedHandler(r)
    \/ \E reply \in TextReplies : WrappedSuggestionsReturn(reply)
    \/ \E reply \in ImagenReplies : WrappedImageReturns(reply)
    \/ \E r \in VariantRequests : HfHandler(r)
    \/ \E reply \in TextReplies : HfSuggestionsReturn(reply)
    \/ \E reply \in OptimizerReplies : HfOptimizeReturns(reply)
    \/ \E reply \in HfReplies : HfImageReturns(reply)
    \/ \E r \in VariantRequests : RestHandler(r)
    \/ \E reply \in RestReplies : RestSuggestionsReturn(reply)
    \/ \E reply \in HfReplies : RestImageReturns(reply)
    \/ \E r \in VariantRequests : PlainHandler(r)
    \/ \E reply \in TextReplies : PlainSuggestionsReturn(reply)
    \/ \E reply \in OptimizerReplies : PlainOptimizeReturns(reply)
    \/ \E reply \in HfReplies : PlainImageReturns(reply)
    \/ \E r \in VariantRequests : FallbackHandler(r)
    \/ \E reply \in RestReplies : FallbackSuggestionsReturn(reply)
    \/ \E reply \in HfReplies : PrimaryReturns(reply)
    \/ \E reply \in HfReplies : FallbackReturns(reply)

SpecVariants == InitVariants /\ [][NextVariants]_vars

\* ---------------------------------------------------------------------------
\* Properties of the handlers under src/unnamed
\* ---------------------------------------------------------------------------

\* the body of a non-OK answer is a JSON object whose error is a text that
\* contains "is currently loading"
C24_SaysLoading(reply) ==
    /\ reply.jsonOk
    /\ reply.data.t = "obj"
    /\ GetProp(reply.data, "error").t = "str"
    /\ Includes(GetProp(reply.data, "error").items, IsCurrentlyLoading)

\* C24: in the Hugging Face handler (src/unnamed/part_004, lines 48-120), a
\* non-OK answer of the image provider whose error text contains "is currently
\* loading" is answered with status 503, every other non-OK answer with status
\* 500, and a 200 with an image URL is sent only after the prompt optimiser
\* and then the image request have both succeeded.
C24_LoadingIs503 ==
    /\ [][\A reply \in HfReplies :
            (HfImageReturns(reply) /\ ~reply.threw /\ ~reply.ok)
                => /\ C24_SaysLoading(reply) => response'.status = 503
                   /\ ~C24_SaysLoading(reply) => response'.status = 500
                   /\ response'.kind = "error"]_vars
    /\ []((env.deployed = "part_004" /\ response.status = 200 /\ response.kind = "image")
            => /\ Len(calls) = 2
               /\ calls[1].op = "optimize" /\ calls[1].res = "returned"
               /\ calls[2].op = "image" /\ calls[2].res = "returned")

\* the image provider said its model is loading and the request was answered 503
C24_Witness ==
    /\ env.deployed = "part_004"
    /\ pc = "done"
    /\ Len(calls) = 2
    /\ calls[2].res = "failed"
    /\ C24_SaysLoading(upstream)
    /\ response.status = 503

\* C25, as stated: in the handlers of src/unnamed/part_004, part_005 and of
\* part_007 (lines 76-105), a POST whose body names a valid action and has no
\* payload is answered with status 400.  None of the three looks at the
\* payload before it destructures it: the TypeError reaches the catch clause,
\* which answers 500.
C25_AsClaimed ==
    [][\A r \in VariantRequests :
        ( /\ HfHandler(r) \/ RestHandler(r) \/ PlainHandler(r)
          /\ r.method = "POST" /\ r.hasBody
          /\ r.action \in {"getSuggestions", "generateImage"}
          /\ r.payload.kind \in {"undefined", "null"} )
            => response'.status = 400]_vars

\* a POST with a valid action and no payload was answered 500 by the catch
\* clause, which had received the TypeError of the destructuring
C25_MissingPayloadIs500 ==
    /\ env.deployed \in {"part_004", "part_005", "part_007/1"}
    /\ req.method = "POST" /\ req.hasBody
    /\ req.action \in {"getSuggestions", "generateImage"}
    /\ req.payload.kind \in {"undefined", "null"}
    /\ caught.is
    /\ Includes(caught.thrown.message, "Cannot destructure property '")
    /\ response.status = 500

\* the provider's text is JSON whose suggestions field is an array
C26_WellShaped(reply) ==
    /\ ~reply.threw
    /\ reply.hasText
    /\ JSONParse(reply.text).ok
    /\ IsArray(GetProp(JSONParse(reply.text).val, "suggestions"))

\* C26, as stated: in the handler with the object schema (src/unnamed/part_003,
\* lines 21-64 and 117-125), getSuggestions is answered with 200 and an array
\* only when the provider's text is JSON whose suggestions field is an array,
\* and the array is that field; for every other text the answer is a 500.  The
\* catch clause of lines 54-60 returns the lines of a text that did not parse.
C26_AsClaimed ==
    [][\A reply \in TextReplies :
        WrappedSuggestionsReturn(reply)
            => IF C26_WellShaped(reply)
               THEN /\ response'.status = 200
                    /\ response'.json = GetProp(JSONParse(reply.text).val, "suggestions")
               ELSE /\ response'.status = 500
                    /\ response'.kind = "error"]_vars

\* a text that is not JSON was answered with 200 and an array of its lines
C26_ArrayFromUnparsedText ==
    /\ env.deployed = "part_003"
    /\ upstream.hasText
    /\ ~JSONParse(upstream.text).ok
    /\ response.status = 200
    /\ IsArray(response.json)

\* the requests to the image provider, in the order they went out
C23_ImageCalls == SelectSeq(calls, LAMBDA c : c.op = "image")

\* C23: in the handler with a primary and a fallback image model
\* (src/unnamed/part_007, lines 326-364), an invocation sends at most two
\* requests to the image provider, the first to the primary model; the
\* fallback model is requested, once, exactly when the primary request threw
\* or was answered non-OK; when the primary answers OK the result is built
\* from its answer and there is no second request; when the fallback request
\* throws or is answered non-OK too, the answer is a 500 without an image.
C23_PrimaryThenOneFallback ==
    env.deployed = "part_007/3" =>
        LET ic == C23_ImageCalls IN
        /\ Len(ic) <= 2
        /\ Len(ic) >= 1 => ic[1].arg[1] = PrimaryModel
        /\ Len(ic) = 2 => ic[2].arg[1] = FallbackModel
        /\ (Len(ic) >= 1 /\ ic[1].res # "pending")
                => (Len(ic) = 2 <=> ic[1].res \in {"threw", "failed"})
        /\ (Len(ic) >= 1 /\ ic[1].res = "pending") => Len(ic) = 1
        /\ (Len(ic) >= 1 /\ ic[1].res \in {"returned", "unreadable"})
                => /\ pc = "done"
                   /\ ic[1].res = "returned"
                        => /\ response.status = 200
                           /\ response.imageUrl = BlobDataUri(upstream)
                   /\ ic[1].res = "unreadable" => response.status = 500
        /\ (Len(ic) = 2 /\ ic[2].res \in {"threw", "failed"})
                => /\ response.status = 500
                   /\ response.kind = "error"
                   /\ response.imageUrl = <<>>

\* the primary model answered non-OK, the fallback model an image, and the
\* request was answered with it
C23_Witness ==
    /\ env.deployed = "part_007/3"
    /\ Len(C23_ImageCalls) = 2
    /\ C23_ImageCalls[1].res = "failed"
    /\ C23_ImageCalls[2].res = "returned"
    /\ response.status = 200
    /\ response.imageUrl = BlobDataUri(upstream)

====
